---- MODULE Spec2Model ----
(***************************************************************************)
(* Presence normalization and segmentation engine of aa-ble-automation:   *)
(* DataProcessor (src/src/processing/processor.py), the zone statistics   *)
(* of TimelineBuilder (src/src/processing/timeline.py) and the timeline   *)
(* preparation of SVGTimelineGenerator (src/src/reports/svg_generator.py).*)
(*                                                                         *)
(* Conventions.  A spreadsheet cell is a record [k, s, n]: k is the Python *)
(* type of the value ("none", "str", "int", "float", "time", "date"), s   *)
(* the characters of a str, n the number of the other kinds (an int; a    *)
(* float in thousandths; a time in seconds since midnight; a date as a    *)
(* day number counted from 2024-01-01).  A datetime is a number of        *)
(* seconds since 2024-01-01T00:00:00.                                      *)
(***************************************************************************)
EXTENDS Integers, Sequences, FiniteSets, TLC

VARIABLES pc, df, normalized, parsed, segments, zero_tags, gaps, timeline, zone_statistics,
          call

vars == <<pc, df, normalized, parsed, segments, zero_tags, gaps, timeline, zone_statistics,
          call>>

(***************************************************************************)
(* Cells                                                                   *)
(***************************************************************************)
NoneCell == [k |-> "none", s |-> <<>>, n |-> 0]

StrCell(chars) == [k |-> "str", s |-> chars, n |-> 0]

IntCell(v) == [k |-> "int", s |-> <<>>, n |-> v]

FloatCell(thousandths) == [k |-> "float", s |-> <<>>, n |-> thousandths]

TimeCell(sec) == [k |-> "time", s |-> <<>>, n |-> sec]

DateCell(day) == [k |-> "date", s |-> <<>>, n |-> day]

(***************************************************************************)
(* Strings as sequences of characters                                      *)
(***************************************************************************)
Digits == {"0", "1", "2", "3", "4", "5", "6", "7", "8", "9"}

DigitVal(c) ==
    CASE c = "0" -> 0 [] c = "1" -> 1 [] c = "2" -> 2 [] c = "3" -> 3
      [] c = "4" -> 4 [] c = "5" -> 5 [] c = "6" -> 6 [] c = "7" -> 7
      [] c = "8" -> 8 [] c = "9" -> 9

AllDigits(s) == \A i \in 1..Len(s) : s[i] \in Digits

RECURSIVE NumVal(_)
NumVal(s) == IF s = <<>> THEN 0
             ELSE 10 * NumVal(SubSeq(s, 1, Len(s) - 1)) + DigitVal(s[Len(s)])

\* str.strip(): leading and trailing blanks removed
RECURSIVE LStrip(_)
LStrip(s) == IF s # <<>> /\ s[1] = " " THEN LStrip(Tail(s)) ELSE s

RECURSIVE RStrip(_)
RStrip(s) == IF s # <<>> /\ s[Len(s)] = " " THEN RStrip(SubSeq(s, 1, Len(s) - 1)) ELSE s

Strip(s) == RStrip(LStrip(s))

\* positions of the separator character sep in s
SepPositions(s, sep) == {i \in 1..Len(s) : s[i] = sep}

\* str(int) for a non-negative int
RECURSIVE IntToStr(_)
IntToStr(v) ==
    LET d == <<"0", "1", "2", "3", "4", "5", "6", "7", "8", "9">>
    IN IF v < 0 THEN <<"-">> \o IntToStr(0 - v)
       ELSE IF v < 10 THEN <<d[v + 1]>>
       ELSE IntToStr(v \div 10) \o <<d[(v % 10) + 1]>>

\* a datetime, in seconds since 2024-01-01T00:00:00
DateTimeCell(n) == [k |-> "datetime", s |-> <<>>, n |-> n]

\* pd.NaT, the missing value of a datetime column
NaTCell == [k |-> "nat", s |-> <<>>, n |-> 0]

\* the outcome of a call that raised the named exception
RaisedCell(exception) == [k |-> "raised", s |-> <<exception>>, n |-> 0]

(***************************************************************************)
(* DataProcessor.parse_time                                                *)
(***************************************************************************)
SecondsPerDay == 86400

\* datetime.time(hour, minute, second): ValueError (here: none) when out of range
MakeTime(h, m, sec) ==
    IF h \in 0..23 /\ m \in 0..59 /\ sec \in 0..59
    THEN TimeCell(h * 3600 + m * 60 + sec)
    ELSE NoneCell

\* the Excel serial branch: the fractional part of the day, in whole seconds
ParseTimeNumber(thousandths) ==
    LET float_val == IF thousandths >= 1000 THEN thousandths % 1000 ELSE thousandths
        \* int() truncates toward zero
        total_seconds == IF float_val >= 0
                         THEN (float_val * SecondsPerDay) \div 1000
                         ELSE 0 - (((0 - float_val) * SecondsPerDay) \div 1000)
        hours == total_seconds \div 3600
        minutes == (total_seconds % 3600) \div 60
        seconds == total_seconds % 60
    IN MakeTime(hours, minutes, seconds)

\* re.match(r'^(\d{1,2}):(\d{2}):(\d{2})$')
MatchHMS(s) ==
    \E p \in {2, 3} :
        /\ Len(s) = p + 5
        /\ s[p] = ":" /\ s[p + 3] = ":"
        /\ AllDigits(SubSeq(s, 1, p - 1))
        /\ AllDigits(SubSeq(s, p + 1, p + 2))
        /\ AllDigits(SubSeq(s, p + 4, p + 5))

\* re.match(r'^(\d{1,2}):(\d{2})$')
MatchHM(s) ==
    \E p \in {2, 3} :
        /\ Len(s) = p + 2
        /\ s[p] = ":"
        /\ AllDigits(SubSeq(s, 1, p - 1))
        /\ AllDigits(SubSeq(s, p + 1, p + 2))

\* float(str) for the decimal literals digits[.digits] with at most three decimals
IsFloatStr(s) ==
    \/ (s # <<>> /\ AllDigits(s))
    \/ \E p \in 2..Len(s) - 1 :
           /\ s[p] = "."
           /\ Len(s) - p <= 3
           /\ AllDigits(SubSeq(s, 1, p - 1))
           /\ AllDigits(SubSeq(s, p + 1, Len(s)))

FloatStrThousandths(s) ==
    IF AllDigits(s) THEN 1000 * NumVal(s)
    ELSE LET p == CHOOSE q \in 2..Len(s) - 1 : s[q] = "."
             frac == SubSeq(s, p + 1, Len(s))
             scale == IF Len(frac) = 1 THEN 100 ELSE IF Len(frac) = 2 THEN 10 ELSE 1
         IN 1000 * NumVal(SubSeq(s, 1, p - 1)) + scale * NumVal(frac)

ParseTimeStr(raw) ==
    LET value == Strip(raw)
        \* position of the first colon in each of the two patterns
        p == Len(value) - 5
        q == Len(value) - 2
        hms == IF MatchHMS(value)
               THEN MakeTime(NumVal(SubSeq(value, 1, p - 1)),
                             NumVal(SubSeq(value, p + 1, p + 2)),
                             NumVal(SubSeq(value, p + 4, p + 5)))
               ELSE NoneCell
        hm == IF MatchHM(value)
              THEN MakeTime(NumVal(SubSeq(value, 1, q - 1)),
                            NumVal(SubSeq(value, q + 1, q + 2)), 0)
              ELSE NoneCell
    IN IF value = <<>> THEN NoneCell
       ELSE IF hms # NoneCell THEN hms
       ELSE IF hm # NoneCell THEN hm
       ELSE IF IsFloatStr(value) THEN ParseTimeNumber(FloatStrThousandths(value))
       ELSE NoneCell

\* pd.NaT is an instance of datetime; NaT.time() raises ValueError
\* ("NaTType does not support time"), which parse_time does not catch
parse_time(value) ==
    CASE value.k = "none" -> NoneCell
      [] value.k = "time" -> value
      [] value.k = "datetime" -> TimeCell(value.n % SecondsPerDay)
      [] value.k = "nat" -> RaisedCell("ValueError")
      [] value.k = "int" -> ParseTimeNumber(1000 * value.n)
      [] value.k = "float" -> ParseTimeNumber(value.n)
      [] value.k = "str" -> ParseTimeStr(value.s)
      [] OTHER -> NoneCell

(***************************************************************************)
(* DataProcessor._parse_date_value                                         *)
(***************************************************************************)
IsLeap(y) == (y % 4 = 0 /\ y % 100 # 0) \/ y % 400 = 0

DaysInMonth(y, m) ==
    IF m = 2 THEN (IF IsLeap(y) THEN 29 ELSE 28)
    ELSE IF m \in {4, 6, 9, 11} THEN 30 ELSE 31

\* days between 0000-03-01 and the civil date y-m-d (proleptic Gregorian)
DaysFromCivil(y, m, d) ==
    LET yy == IF m <= 2 THEN y - 1 ELSE y
        mm == IF m <= 2 THEN m + 9 ELSE m - 3
    IN 365 * yy + yy \div 4 - yy \div 100 + yy \div 400 + (153 * mm + 2) \div 5 + d - 1

\* the day number of a date: days since 2024-01-01
DayNumber(y, m, d) == DaysFromCivil(y, m, d) - DaysFromCivil(2024, 1, 1)

\* datetime.date(y, m, d): ValueError (here: none) when out of range
MakeDate(y, m, d) ==
    IF y \in 1..9999 /\ m \in 1..12 /\ d >= 1 /\ d <= DaysInMonth(y, m)
    THEN DateCell(DayNumber(y, m, d))
    ELSE NoneCell

\* datetime.strptime(value, fmt).date() for a format of three numeric fields
\* separated by sep; year_first tells %Y-first from %d-first
StrpDate(value, sep, year_first) ==
    LET ps == SepPositions(value, sep)
        p1 == CHOOSE p \in ps : \A q \in ps : p <= q
        p2 == CHOOSE p \in ps : \A q \in ps : p >= q
        a == SubSeq(value, 1, p1 - 1)
        b == SubSeq(value, p1 + 1, p2 - 1)
        c == SubSeq(value, p2 + 1, Len(value))
        ytok == IF year_first THEN a ELSE c
        dtok == IF year_first THEN c ELSE a
    IN IF /\ Cardinality(ps) = 2
          /\ AllDigits(a) /\ AllDigits(b) /\ AllDigits(c)
          /\ Len(ytok) = 4 /\ Len(b) \in {1, 2} /\ Len(dtok) \in {1, 2}
       THEN MakeDate(NumVal(ytok), NumVal(b), NumVal(dtok))
       ELSE NoneCell

\* the formats list, tried in order; the first that parses wins
ParseDateStr(raw) ==
    LET value == Strip(raw)
        f1 == StrpDate(value, "-", TRUE)
        f2 == StrpDate(value, ".", FALSE)
        f3 == StrpDate(value, "/", FALSE)
        f4 == StrpDate(value, "/", TRUE)
    IN IF value = <<>> THEN NoneCell
       ELSE IF f1 # NoneCell THEN f1
       ELSE IF f2 # NoneCell THEN f2
       ELSE IF f3 # NoneCell THEN f3
       ELSE f4

\* excel_epoch = datetime(1899, 12, 30)
ExcelEpochDay == DayNumber(1899, 12, 30)

_parse_date_value(value) ==
    CASE value.k = "none" -> NoneCell
      [] value.k = "date" -> value
      [] value.k = "datetime" -> DateCell(value.n \div SecondsPerDay)
      [] value.k = "str" -> ParseDateStr(value.s)
      [] value.k = "int" -> DateCell(ExcelEpochDay + value.n)
      \* int(value) truncates toward zero
      [] value.k = "float" ->
           DateCell(ExcelEpochDay + (IF value.n >= 0 THEN value.n \div 1000
                                     ELSE 0 - ((0 - value.n) \div 1000)))
      [] OTHER -> NoneCell

(***************************************************************************)
(* Tables (DataFrames): a list of column labels and a list of rows, each   *)
(* row a list of cells, one per column.                                    *)
(***************************************************************************)
STANDARD_COLUMNS == <<"tn_number", "shift_day", "ble_tag", "zone_id", "time_only">>

META_COLUMNS == <<"_source_file", "_file_date">>

\* str(col).lower().strip() of the column labels the model uses; a label or
\* key written in Cyrillic in the source is transliterated and prefixed "ru:"
LowerStrip(col) ==
    CASE col = "ru:TN" -> "ru:tn"
      [] col = " TN " -> "tn"
      [] col = "ru:Den smeny" -> "ru:den smeny"
      [] col = "ru:BLE-metka" -> "ru:ble-metka"
      [] col = "ru:Zona" -> "ru:zona"
      [] col = "ru:Vremya na obekte" -> "ru:vremya na obekte"
      [] col = "Time" -> "time"
      [] col = "Date" -> "date"
      [] col = "ru:Data" -> "ru:data"
      [] col = " Shift_Day " -> "shift_day"
      [] OTHER -> col

\* COLUMN_MAPPING.get(key): the standard name of a synonym, "" for no entry
COLUMN_MAPPING(key) ==
    CASE key \in {"ru:tn", "ru:tabelnyj nomer", "ru:tabelnyj", "tn", "tn_number"} -> "tn_number"
      [] key \in {"ru:den smeny", "ru:data smeny", "shift_day", "ru:data"} -> "shift_day"
      [] key \in {"ru:ble-metka", "ru:ble metka", "ru:metka", "metka", "ble_tag", "tag"} -> "ble_tag"
      [] key \in {"ru:zona", "zone", "zone_id", "ru:id zony"} -> "zone_id"
      [] key \in {"ru:vremya na obekte", "ru:vremya", "time", "time_only"} -> "time_only"
      [] OTHER -> ""

DEFAULT_POSITIONS(std_col) ==
    CASE std_col = "tn_number" -> 0
      [] std_col = "shift_day" -> 3
      [] std_col = "ble_tag" -> 10
      [] std_col = "zone_id" -> 11
      [] std_col = "time_only" -> 15

Empty(t) == Len(t.rows) = 0 \/ Len(t.columns) = 0

HasColumn(t, name) == \E i \in 1..Len(t.columns) : t.columns[i] = name

\* index (from 1) of the first column labelled name
ColumnIndex(t, name) ==
    CHOOSE i \in 1..Len(t.columns) :
        /\ t.columns[i] = name
        /\ \A j \in 1..(i - 1) : t.columns[j] # name

\* variant: the last column with a synonym of std_col wins
find_col_by_mapping_last(t, std_col) ==
    LET hits == {i \in 1..Len(t.columns) : COLUMN_MAPPING(LowerStrip(t.columns[i])) = std_col}
    IN IF hits = {} THEN 0 ELSE CHOOSE i \in hits : \A j \in hits : i >= j

\* find_col_by_mapping: index (from 1) of the first column whose lowered,
\* stripped label is a synonym of std_col; 0 when there is none
find_col_by_mapping(t, std_col) ==
    LET hits == {i \in 1..Len(t.columns) : COLUMN_MAPPING(LowerStrip(t.columns[i])) = std_col}
    IN IF hits = {} THEN 0 ELSE CHOOSE i \in hits : \A j \in hits : i <= j

\* the source column (index from 1) of a standard column; 0 for an all-None column
SourceIndex(t, std_col) ==
    LET by_name == find_col_by_mapping(t, std_col)
        pos == DEFAULT_POSITIONS(std_col)
    IN IF by_name # 0 THEN by_name
       ELSE IF pos < Len(t.columns) THEN pos + 1
       ELSE 0

\* variant: every input column without a synonym is copied as well
KeptMeta_all_unmapped(t) ==
    SelectSeq(t.columns, LAMBDA c : COLUMN_MAPPING(LowerStrip(c)) = "")

\* the service columns the second loop copies: those the input has
KeptMeta(t) == SelectSeq(META_COLUMNS, LAMBDA m : HasColumn(t, m))

normalize_columns(t) ==
    IF Empty(t) THEN [columns |-> STANDARD_COLUMNS, rows |-> <<>>]
    ELSE LET kept_meta == KeptMeta(t)
             src == [c \in 1..Len(STANDARD_COLUMNS) |-> SourceIndex(t, STANDARD_COLUMNS[c])]
             meta_src == [c \in 1..Len(kept_meta) |-> ColumnIndex(t, kept_meta[c])]
             OutRow(row) ==
                 [c \in 1..Len(STANDARD_COLUMNS) |->
                     IF src[c] = 0 THEN NoneCell ELSE row[src[c]]]
                 \o [c \in 1..Len(kept_meta) |-> row[meta_src[c]]]
         IN [columns |-> STANDARD_COLUMNS \o kept_meta,
             rows |-> [r \in 1..Len(t.rows) |-> OutRow(t.rows[r])]]

\* the cell of row under the column labelled name (row.get(name)); None when absent
Cell(t, row, name) == IF HasColumn(t, name) THEN row[ColumnIndex(t, name)] ELSE NoneCell

(***************************************************************************)
(* DataProcessor.parse_dates                                               *)
(***************************************************************************)
parse_dates(t) ==
    IF Empty(t) THEN t
    ELSE [columns |-> t.columns,
          rows |-> [r \in 1..Len(t.rows) |->
                      [c \in 1..Len(t.columns) |->
                          IF t.columns[c] = "time_only" THEN parse_time(t.rows[r][c])
                          ELSE IF t.columns[c] = "shift_day" THEN _parse_date_value(t.rows[r][c])
                          ELSE t.rows[r][c]]]]

(***************************************************************************)
(* DataProcessor.build_segments                                            *)
(***************************************************************************)
\* ZONE_NAMES.get(zone_id_int, f'Zona {zone_id_int}'); the catalog names are
\* transliterated
ZONE_IDS == 0..13

ZONE_NAMES(z) ==
    CASE z = 0 -> "Vne zony BLE-mayachkov"
      [] z = 1 -> "Zony provedeniya rabot"
      [] z = 2 -> "Stolovye"
      [] z = 3 -> "Opasnye zony"
      [] z = 4 -> "Kurilki"
      [] z = 5 -> "Zony otdyha"
      [] z = 6 -> "VZhG"
      [] z = 7 -> "Tualety"
      [] z = 8 -> "Ostanovki avtobusov"
      [] z = 9 -> "Administrativnye pomescheniya"
      [] z = 10 -> "Zona vydachi WW"
      [] z = 11 -> "Sklad"
      [] z = 12 -> "Masterskie"
      [] z = 13 -> "KPP"
      [] OTHER -> "Zona " \o ToString(z)

\* int(x) inside try/except (ValueError, TypeError): 0 for None and on error
ZoneIdInt(zone_id) ==
    CASE zone_id.k = "int" -> zone_id.n
      [] zone_id.k = "float" -> IF zone_id.n >= 0 THEN zone_id.n \div 1000
                                ELSE 0 - ((0 - zone_id.n) \div 1000)
      [] zone_id.k = "str" -> IF Strip(zone_id.s) # <<>> /\ AllDigits(Strip(zone_id.s))
                              THEN NumVal(Strip(zone_id.s)) ELSE 0
      [] OTHER -> 0

\* str(tn).strip() of a badge cell
TnStr(tn) ==
    CASE tn.k = "str" -> Strip(tn.s)
      [] tn.k = "int" -> IntToStr(tn.n)
      [] OTHER -> <<"?">>

\* dict.get(key, default) on a map given as a function
MapGet(map, key, default) == IF key \in DOMAIN map THEN map[key] ELSE default

\* the key (tn_number, shift_day) of a row
RowKey(t, row) == <<Cell(t, row, "tn_number"), Cell(t, row, "shift_day")>>

\* the keys of df.groupby(['tn_number', 'shift_day'], sort=False), in order of
\* first appearance; rows with a missing key value belong to no group
GroupKeys(t) ==
    LET key_of == [r \in 1..Len(t.rows) |-> RowKey(t, t.rows[r])]
        keyed == {r \in 1..Len(t.rows) : key_of[r][1].k # "none" /\ key_of[r][2].k # "none"}
        firsts == {r \in keyed : \A q \in keyed : q < r => key_of[q] # key_of[r]}
        Nth(k) == CHOOSE r \in firsts : Cardinality({q \in firsts : q < r}) = k - 1
    IN [k \in 1..Cardinality(firsts) |-> key_of[Nth(k)]]

\* the rows of one group, in index order (group.sort_index())
GroupRows(t, key) == SelectSeq(t.rows, LAMBDA row : RowKey(t, row) = key)

\* variant: a truth test (not time_only), under which midnight counts as missing
HasTime_falsy_midnight(time_only) == time_only.k # "none" /\ time_only.n # 0

\* not (time_only is None): the row is not skipped
HasTime(time_only) == time_only.k # "none"

\* variant: an equal time of day also counts as a rollover
Rollover_on_equal(prev_time, time_only) == prev_time # -1 /\ time_only.n <= prev_time

\* variant: no rollover detection
Rollover_never(prev_time, time_only) == FALSE

\* the midnight test: prev_time is set (-1 stands for None) and the time of
\* day went backwards
Rollover(prev_time, time_only) == prev_time # -1 /\ time_only.n < prev_time

\* variant: the offset is worked out afresh for every row
DayOffsetKept_afresh(day_offset) == 0

\* day_offset on a row without rollover: nothing assigns it
DayOffsetKept(day_offset) == day_offset

\* variant: a skipped row forgets the previous time of day
SkippedState_forgets(st) == [prev_time |-> -1, day_offset |-> st.day_offset]

\* the loop state after "continue": prev_time and day_offset are not assigned
SkippedState(st) == st

\* one iteration of the loop over the rows of a group, from the loop state st
\* (prev_time, -1 for None, and day_offset): the segments appended, the state
\* after it, and that state as the one entry of the trace of the scan
ScanRow(t, row, key, st, area_map, fio_map) ==
    LET time_only == Cell(t, row, "time_only")
        shift_day == key[2].n
        tn == TnStr(key[1])
        day_offset == IF Rollover(st.prev_time, time_only)
                      THEN st.day_offset + 1 ELSE DayOffsetKept(st.day_offset)
        current_date == shift_day + day_offset
        start_dt == current_date * SecondsPerDay + time_only.n
        zone_id_int == ZoneIdInt(Cell(t, row, "zone_id"))
        segment == [tn_number |-> tn,
                    employee |-> MapGet(fio_map, tn, tn),
                    area |-> MapGet(area_map, tn, <<>>),
                    date |-> shift_day,
                    start |-> start_dt,
                    end |-> start_dt + 60,
                    duration_minutes |-> 1,
                    ble_tag |-> Cell(t, row, "ble_tag"),
                    zone_id |-> zone_id_int,
                    zone_name |-> ZONE_NAMES(zone_id_int)]
        after == IF ~HasTime(time_only)
                 THEN SkippedState(st)
                 ELSE [prev_time |-> time_only.n, day_offset |-> day_offset]
    IN [out |-> IF ~HasTime(time_only) THEN <<>> ELSE <<segment>>,
        st |-> after,
        trace |-> <<after>>]

\* the loop over rows[lo..hi] of a group, in order, from the loop state st
RECURSIVE ScanGroup(_, _, _, _, _, _, _, _)
ScanGroup(t, rows, lo, hi, key, st, area_map, fio_map) ==
    IF lo > hi THEN [out |-> <<>>, st |-> st, trace |-> <<>>]
    ELSE IF lo = hi THEN ScanRow(t, rows[lo], key, st, area_map, fio_map)
    ELSE LET mid == (lo + hi) \div 2
             left == ScanGroup(t, rows, lo, mid, key, st, area_map, fio_map)
             right == ScanGroup(t, rows, mid + 1, hi, key, left.st, area_map, fio_map)
         IN [out |-> left.out \o right.out, st |-> right.st,
             trace |-> left.trace \o right.trace]

\* the segments of one group: prev_time = None, day_offset = 0 at its start
GroupSegments(t, key, area_map, fio_map) ==
    LET rows == GroupRows(t, key)
    IN ScanGroup(t, rows, 1, Len(rows), key, [prev_time |-> -1, day_offset |-> 0],
                 area_map, fio_map).out

RECURSIVE BuildGroups(_, _, _, _, _)
BuildGroups(t, keys, g, area_map, fio_map) ==
    IF g > Len(keys) THEN <<>>
    ELSE GroupSegments(t, keys[g], area_map, fio_map)
         \o BuildGroups(t, keys, g + 1, area_map, fio_map)

build_segments(t, area_map, fio_map) ==
    IF Empty(t) THEN <<>>
    ELSE BuildGroups(t, GroupKeys(t), 1, area_map, fio_map)

(***************************************************************************)
(* DataProcessor.analyze_zero_tags                                         *)
(***************************************************************************)
\* an empty Series or dict
EmptyMap == [x \in {} |-> 0]

TAG_ZERO_WARNING_THRESHOLD == 100

\* the elementwise comparison df[tag_col] == 0
TagEqualsZero(tag) == tag.k \in {"int", "float"} /\ tag.n = 0

\* zero_tags.groupby(tn_col).size(): the number of tag-0 rows of one badge value
ZeroCount(t, tn) ==
    Cardinality({r \in 1..Len(t.rows) :
        /\ Cell(t, t.rows[r], "tn_number") = tn
        /\ TagEqualsZero(Cell(t, t.rows[r], "ble_tag"))})

\* variant: the threshold itself is flagged
AboveThreshold_inclusive(count) == count >= TAG_ZERO_WARNING_THRESHOLD

\* counts > self.TAG_ZERO_WARNING_THRESHOLD
AboveThreshold(count) == count > TAG_ZERO_WARNING_THRESHOLD

\* the badge values that key a group (a missing badge keys none)
TnValues(t) ==
    {Cell(t, t.rows[r], "tn_number") : r \in 1..Len(t.rows)} \ {NoneCell}

\* the result Series as a function from badge value to count
analyze_zero_tags(t) ==
    IF Empty(t) \/ ~HasColumn(t, "ble_tag") \/ ~HasColumn(t, "tn_number")
    THEN EmptyMap
    ELSE LET above_threshold ==
                 {tn \in TnValues(t) : AboveThreshold(ZeroCount(t, tn))}
         IN [tn \in above_threshold |-> ZeroCount(t, tn)]

(***************************************************************************)
(* DataProcessor.analyze_time_gaps                                         *)
(***************************************************************************)
TIME_GAP_THRESHOLD_MINUTES == 1

\* group.sort_values('start'): rows with equal start keep their order here;
\* the rows build_segments makes for one badge with equal start have equal end
SortByStart(segs) ==
    LET n == Len(segs)
        rank == [i \in 1..n |->
                    Cardinality({j \in 1..n : \/ segs[j].start < segs[i].start
                                              \/ segs[j].start = segs[i].start /\ j < i}) + 1]
        at == [k \in 1..n |-> CHOOSE i \in 1..n : rank[i] = k]
    IN [k \in 1..n |-> segs[at[k]]]

\* variant: the legacy diff - 1 applied to the segment boundaries
GapMinutes_minus_one(current_start, prev_end) ==
    [num |-> current_start - prev_end - 60, den |-> 60]

\* gap_minutes = (current_start - prev_end).total_seconds() / 60: a float, kept
\* as the fraction num/den
GapMinutes(current_start, prev_end) == [num |-> current_start - prev_end, den |-> 60]

\* variant: a gap of exactly the threshold is reported too
OverGapThreshold_at_least(gap_minutes) ==
    gap_minutes.num >= TIME_GAP_THRESHOLD_MINUTES * gap_minutes.den

\* gap_minutes > self.TIME_GAP_THRESHOLD_MINUTES
OverGapThreshold(gap_minutes) == gap_minutes.num > TIME_GAP_THRESHOLD_MINUTES * gap_minutes.den

\* variant: the start of the row is kept instead of its end
NextPrevEnd_start(row) == row.start

\* the prev_end the loop keeps after a row: the row has an 'end'
NextPrevEnd(row) == row.end

\* one iteration of the loop over the sorted rows of one badge, from the loop
\* state st (prev_end; has_prev FALSE for None)
GapStep(row, st) ==
    LET current_start == row.start
        gap_minutes == GapMinutes(current_start, st.prev_end)
        found == st.has_prev /\ OverGapThreshold(gap_minutes)
        gap == [from |-> st.prev_end, to |-> current_start, gap_minutes |-> gap_minutes]
    IN [out |-> IF found THEN <<gap>> ELSE <<>>,
        st |-> [has_prev |-> TRUE, prev_end |-> NextPrevEnd(row)]]

\* the loop over rows[lo..hi], in order, from the loop state st
RECURSIVE ScanGaps(_, _, _, _)
ScanGaps(rows, lo, hi, st) ==
    IF lo > hi THEN [out |-> <<>>, st |-> st]
    ELSE IF lo = hi THEN GapStep(rows[lo], st)
    ELSE LET mid == (lo + hi) \div 2
             left == ScanGaps(rows, lo, mid, st)
             right == ScanGaps(rows, mid + 1, hi, left.st)
         IN [out |-> left.out \o right.out, st |-> right.st]

SegmentsOf(segs, tn) == SelectSeq(segs, LAMBDA sg : sg.tn_number = tn)

GapsOf(segs, tn) ==
    LET group == SegmentsOf(segs, tn)
        sorted_group == SortByStart(group)
    IN ScanGaps(sorted_group, 1, Len(sorted_group), [has_prev |-> FALSE, prev_end |-> 0]).out

\* variant: the frame handed in is sorted in place
SegmentsAfterGaps_sorted(segs) == SortByStart(segs)

\* the frame handed to analyze_time_gaps, after the call: groupby and
\* sort_values return new frames, nothing is assigned into df
SegmentsAfterGaps(segs) == segs

\* the result dict as a function from badge to its list of gaps
analyze_time_gaps(segs, fio_map) ==
    IF segs = <<>> THEN EmptyMap
    ELSE LET tns == {segs[i].tn_number : i \in 1..Len(segs)}
             with_gaps == {tn \in tns : GapsOf(segs, tn) # <<>>}
         IN [tn \in with_gaps |-> GapsOf(segs, tn)]

(***************************************************************************)
(* SVGTimelineGenerator.prepare_timeline_data                              *)
(***************************************************************************)
\* KPI_GROUPS
KPI_GROUPS(name) ==
    CASE name = "work" -> {1}
      [] name = "breaks" -> {2, 4, 5, 7}
      [] name = "no_ble" -> {0}
      [] name = "other" -> {3, 6, 8, 9, 10, 11, 12, 13}

KPI_NAMES == {"work", "breaks", "no_ble", "other"}

\* variant: a zone outside every group falls to no_ble
KpiBucket_default_no_ble(z) ==
    IF z \in KPI_GROUPS("work") THEN "work"
    ELSE IF z \in KPI_GROUPS("breaks") THEN "breaks"
    ELSE IF z \in KPI_GROUPS("other") THEN "other"
    ELSE "no_ble"

\* the if/elif chain that counts one segment
KpiBucket(z) ==
    IF z \in KPI_GROUPS("work") THEN "work"
    ELSE IF z \in KPI_GROUPS("breaks") THEN "breaks"
    ELSE IF z \in KPI_GROUPS("no_ble") THEN "no_ble"
    ELSE "other"

\* int(row['ble_tag']) if pd.notna(row['ble_tag']) else 0
TagInt(tag) ==
    CASE tag.k = "int" -> tag.n
      [] tag.k = "float" -> IF tag.n >= 0 THEN tag.n \div 1000 ELSE 0 - ((0 - tag.n) \div 1000)
      [] tag.k = "str" -> NumVal(Strip(tag.s))
      [] OTHER -> 0

\* int(str) raises ValueError unless the stripped text is a run of digits
TagIntRaises(tag) ==
    tag.k = "str" /\ ~(Strip(tag.s) # <<>> /\ AllDigits(Strip(tag.s)))

\* the smallest and the largest member of a non-empty set of numbers
Min(S) == CHOOSE x \in S : \A y \in S : x <= y

Max(S) == CHOOSE x \in S : \A y \in S : x >= y

\* zone_stats[z]['tags'][t]['minutes']: one per segment of the zone and tag
TagMinutes(segs, z, tg) ==
    Cardinality({i \in 1..Len(segs) : segs[i].zone = z /\ segs[i].tag = tg})

\* kpi[name]: one per segment whose zone falls in the bucket
KpiCount(segs, name) ==
    Cardinality({i \in 1..Len(segs) : KpiBucket(segs[i].zone) = name})

NoTimeline == [status |-> "none"]

\* variant: the nearest full hour
ViewportStart_nearest_hour(first_minute) == ((first_minute + 30) \div 60) * 60

\* viewport_start = (first_minute // 60) * 60
ViewportStart(first_minute) == (first_minute \div 60) * 60

\* variant: rounding up to the hour without the extra hour
ViewportEnd_ceil(last_minute) == ((last_minute + 59) \div 60) * 60

\* viewport_end = ((last_minute // 60) + 1) * 60
ViewportEnd(last_minute) == ((last_minute \div 60) + 1) * 60

\* minute = int((row['start'] - base_midnight).total_seconds() // 60)
MinuteOf(start, base_midnight) == (start - base_midnight) \div 60

\* the minutes counted for zone z: one per segment of the zone
ZoneMinutes(segs, z) == Cardinality({i \in 1..Len(segs) : segs[i].zone = z})

prepare_timeline_data(df_user, tag_desc_map) ==
    IF df_user = <<>> THEN NoTimeline
    ELSE IF \E i \in 1..Len(df_user) : TagIntRaises(df_user[i].ble_tag)
    THEN [status |-> "raised", exception |-> "ValueError"]
    ELSE LET first_dt == Min({df_user[i].start : i \in 1..Len(df_user)})
             base_date == first_dt \div SecondsPerDay
             base_midnight == base_date * SecondsPerDay
             segs == [i \in 1..Len(df_user) |->
                        [minute |-> MinuteOf(df_user[i].start, base_midnight),
                         zone |-> df_user[i].zone_id,
                         tag |-> TagInt(df_user[i].ble_tag),
                         \* tag_desc_map.get(str(tag), '')
                         desc |-> MapGet(tag_desc_map, IntToStr(TagInt(df_user[i].ble_tag)), ""),
                         datetime |-> df_user[i].start]]
             all_minutes == {segs[i].minute : i \in 1..Len(segs)}
             first_minute == Min(all_minutes)
             last_minute == Max(all_minutes)
             zones == {segs[i].zone : i \in 1..Len(segs)}
             TagsIn(z) == {segs[i].tag : i \in {j \in 1..Len(segs) : segs[j].zone = z}}
             zone_stats ==
                 [z \in zones |->
                    [minutes |-> ZoneMinutes(segs, z),
                     tags |-> [tg \in TagsIn(z) |->
                                 [minutes |-> TagMinutes(segs, z, tg),
                                  desc |-> MapGet(tag_desc_map, IntToStr(tg), "")]]]]
             kpi == [name \in KPI_NAMES |->
                       KpiCount(segs, name)]
         IN [status |-> "ok",
             employee |-> df_user[1].employee,
             area |-> df_user[1].area,
             base_date |-> base_date,
             segments |-> segs,
             zone_stats |-> zone_stats,
             kpi |-> kpi,
             total |-> Len(segs),
             viewport_start |-> ViewportStart(first_minute),
             viewport_end |-> ViewportEnd(last_minute),
             first_minute |-> first_minute,
             last_minute |-> last_minute]

(***************************************************************************)
(* SVGTimelineGenerator._generate_zones_accordion: the order of the zones  *)
(***************************************************************************)
ZONE_ORDER == <<1, 4, 10, 13, 2, 7, 0, 5, 3, 6, 8, 9, 11, 12>>

\* variant: the first seven of ZONE_ORDER, then every zone by its id
OrderKey_then_by_id(z) ==
    IF \E i \in 1..7 : ZONE_ORDER[i] = z
    THEN (CHOOSE i \in 1..7 : ZONE_ORDER[i] = z) - 1
    ELSE 999 + z

\* ZONE_ORDER.index(z) if z in ZONE_ORDER else 999
OrderKey(z) ==
    IF \E i \in 1..Len(ZONE_ORDER) : ZONE_ORDER[i] = z
    THEN (CHOOSE i \in 1..Len(ZONE_ORDER) : ZONE_ORDER[i] = z) - 1
    ELSE 999

\* zone_stats.keys(): the zones in the order of their first segment
ZoneStatsKeys(segs) ==
    LET firsts == {i \in 1..Len(segs) : \A j \in 1..(i - 1) : segs[j].zone # segs[i].zone}
        Nth(n) == CHOOSE i \in firsts : Cardinality({j \in firsts : j < i}) = n - 1
    IN [n \in 1..Cardinality(firsts) |-> segs[Nth(n)].zone]

\* sorted(zone_stats.keys(), key=...): sorted() is stable
sorted_zones(data) ==
    LET keys == ZoneStatsKeys(data.segments)
        Before(a, b) == \/ OrderKey(keys[a]) < OrderKey(keys[b])
                        \/ OrderKey(keys[a]) = OrderKey(keys[b]) /\ a < b
        Place(a) == 1 + Cardinality({b \in 1..Len(keys) : Before(b, a)})
    IN [n \in 1..Len(keys) |-> keys[CHOOSE a \in 1..Len(keys) : Place(a) = n]]

(***************************************************************************)
(* TimelineBuilder.calculate_zone_statistics                               *)
(***************************************************************************)
\* the sum of duration_minutes over rows[lo..hi]
RECURSIVE SumDuration(_, _, _)
SumDuration(rows, lo, hi) ==
    IF lo > hi THEN 0
    ELSE IF lo = hi THEN rows[lo].duration_minutes
    ELSE SumDuration(rows, lo, (lo + hi) \div 2) + SumDuration(rows, (lo + hi) \div 2 + 1, hi)

\* variant: only the catalog zones are totalled
ZoneTotal_catalog_only(segs, z) ==
    LET rows == SelectSeq(segs, LAMBDA sg : sg.zone_id = z /\ z \in ZONE_IDS)
    IN SumDuration(rows, 1, Len(rows))

\* df.groupby('zone_id')['duration_minutes'].sum() for one zone
ZoneTotal(segs, z) ==
    LET rows == SelectSeq(segs, LAMBDA sg : sg.zone_id = z)
    IN SumDuration(rows, 1, Len(rows))

\* insertion into a list kept in descending total_minutes; rows with equal
\* totals keep the ascending zone_id order groupby produced
RECURSIVE InsertByTotal(_, _)
InsertByTotal(sorted, row) ==
    IF sorted = <<>> THEN <<row>>
    ELSE IF sorted[Len(sorted)].total_minutes >= row.total_minutes THEN Append(sorted, row)
    ELSE Append(InsertByTotal(SubSeq(sorted, 1, Len(sorted) - 1), row), sorted[Len(sorted)])

RECURSIVE ZoneRows(_, _)
ZoneRows(segs, zones) ==
    IF zones = {} THEN <<>>
    ELSE LET z == Max(zones)
         IN InsertByTotal(ZoneRows(segs, zones \ {z}),
                          [zone_id |-> z, zone_name |-> ZONE_NAMES(z),
                           total_minutes |-> ZoneTotal(segs, z)])

calculate_zone_statistics(segs) ==
    IF segs = <<>> THEN <<>>
    ELSE ZoneRows(segs, {segs[i].zone_id : i \in 1..Len(segs)})

(***************************************************************************)
(* Inputs: the reference maps and the tables a run may be given            *)
(***************************************************************************)
MaxRows == 3

MaxGroupRows == 3

MaxZoneRows == 3

MaxViewRows == 3

MaxZeroRows == 102

TN001 == <<"0", "0", "1">>

TN002 == <<"0", "0", "2">>

\* the maps load_people_mapping and load_ble_journal hand to the run; the two
\* badges belong to two people of the same name
FioMap == (TN001 :> <<"Ivanov I.">>) @@ (TN002 :> <<"Ivanov I.">>)

AreaMap == (TN001 :> <<"Area 1">>)

TagDescMap == (<<"5">> :> "Gate 5")

Chars(h1, h2, m1, m2) == <<h1, h2, ":", m1, m2>>

DAY1 == StrCell(<<"2", "0", "2", "4", "-", "0", "1", "-", "0", "1">>)

DAY2 == StrCell(<<"0", "2", ".", "0", "1", ".", "2", "0", "2", "4">>)

BADDAY == StrCell(<<"n", "/", "a">>)

T2358 == StrCell(Chars("2", "3", "5", "8"))

T2359 == StrCell(Chars("2", "3", "5", "9"))

T0000 == StrCell(Chars("0", "0", "0", "0"))

T0001 == StrCell(Chars("0", "0", "0", "1"))

T0800 == StrCell(Chars("0", "8", "0", "0"))

T0801 == StrCell(Chars("0", "8", "0", "1"))

T0805 == StrCell(Chars("0", "8", "0", "5"))

T0807 == StrCell(Chars("0", "8", "0", "7"))

T080930 == StrCell(<<"8", ":", "0", "9", ":", "3", "0">>)

T0205 == StrCell(Chars("0", "2", "0", "5"))

T1010 == StrCell(Chars("1", "0", "1", "0"))

T005959 == StrCell(<<"0", "0", ":", "5", "9", ":", "5", "9">>)

FILE1 == StrCell(<<"AA_BLE_2024-01-01.xlsx">>)

H_RU == <<"ru:TN", "ru:Den smeny", "ru:BLE-metka", "ru:Zona", "ru:Vremya na obekte">>

H_STD == STANDARD_COLUMNS

\* load_aable_files adds _source_file and _file_date to every file it reads
H_LOADED == H_RU \o META_COLUMNS

Row5(tn, day, tag, zone, tm) == <<tn, day, tag, zone, tm>>

Row7(tn, day, tag, zone, tm) == <<tn, day, tag, zone, tm, FILE1, DateCell(0)>>

\* all sequences of length 0..n over the set S
SeqsUpTo(S, n) == UNION {[1..k -> S] : k \in 0..n}

\* the readings 23:58, 23:59, 00:00, 00:01 of one badge and shift day
RolloverTable ==
    [columns |-> H_LOADED,
     rows |-> [r \in 1..4 |->
                 Row7(StrCell(TN001), DAY1, IntCell(5), IntCell(1),
                      <<T2358, T2359, T0000, T0001>>[r])]]

\* the readings 23:59, an unreadable time, 00:00, no time, 00:01
DirtyTable ==
    [columns |-> H_LOADED,
     rows |-> [r \in 1..5 |->
                 Row7(StrCell(TN001), DAY1, IntCell(5), IntCell(1),
                      <<T2359, StrCell(<<"a", "b", "c">>), T0000, NoneCell, T0001>>[r])]]

\* one badge, one shift day, times around midnight; the loader's columns
SegTables ==
    LET rows == {Row7(StrCell(TN001), DAY1, IntCell(5), IntCell(1), tm) :
                    tm \in {T2358, T2359, T0000, T0001, NoneCell}}
    IN {[columns |-> H_LOADED, rows |-> rs] : rs \in SeqsUpTo(rows, MaxRows)}
       \cup {RolloverTable, DirtyTable}

\* the readings 08:00, 08:01, 08:05, 8:09:30 of one badge and shift day
HolesTable ==
    [columns |-> H_STD,
     rows |-> [r \in 1..4 |->
                 Row5(StrCell(TN001), DAY1, IntCell(5), IntCell(1),
                      <<T0800, T0801, T0805, T080930>>[r])]]

\* one badge, one shift day, times with and without holes
GapTables ==
    LET rows == {Row5(StrCell(TN001), DAY1, IntCell(5), IntCell(1), tm) :
                    tm \in {T0800, T0801, T0805, T0807, T080930}}
    IN {[columns |-> H_STD, rows |-> rs] : rs \in SeqsUpTo(rows, MaxRows)}
       \cup {HolesTable}

\* several badges and shift days, missing badge, unparseable day
GroupTables ==
    LET rows == {Row5(StrCell(TN001), DAY1, IntCell(5), IntCell(1), T2359),
                 Row5(StrCell(TN001), DAY1, IntCell(5), IntCell(1), T0000),
                 Row5(StrCell(TN002), DAY1, IntCell(5), IntCell(1), T0000),
                 Row5(StrCell(TN001), DAY2, IntCell(5), IntCell(1), T0000),
                 Row5(StrCell(<<" ">> \o TN001), DAY1, IntCell(5), IntCell(1), T0000),
                 Row5(NoneCell, DAY1, IntCell(5), IntCell(1), T0000),
                 Row5(StrCell(TN001), BADDAY, IntCell(5), IntCell(1), T0000)}
    IN {[columns |-> H_RU, rows |-> rs] : rs \in SeqsUpTo(rows, MaxGroupRows)}

\* one badge, one native shift day, native times 08:00, 08:01, ... by row,
\* zones in and out of the catalog
ZoneTables ==
    LET cells == {<<IntCell(5), IntCell(z)>> : z \in {0, 1, 3, 50, 99}}
                 \cup {<<IntCell(5), NoneCell>>,
                       <<IntCell(7), StrCell(<<"5">>)>>,
                       <<IntCell(5), StrCell(<<"a", "b", "c">>)>>}
        one == {<<<<IntCell(5), IntCell(z)>>>> : z \in ZONE_IDS}
        RowsOf(cs) == [r \in 1..Len(cs) |->
                         Row5(StrCell(TN001), DateCell(0), cs[r][1], cs[r][2],
                              TimeCell(8 * 3600 + (r - 1) * 60))]
    IN {[columns |-> H_STD, rows |-> RowsOf(cs)] :
            cs \in (SeqsUpTo(cells, MaxZoneRows) \ {<<>>}) \cup one}

\* one badge, one shift day, times that make the viewport cases
ViewTables ==
    LET rows == {Row5(IntCell(1), DAY1, IntCell(5), IntCell(1), tm) :
                    tm \in {T0205, T1010, T005959, T2359}}
    IN {[columns |-> H_STD, rows |-> rs] : rs \in SeqsUpTo(rows, MaxViewRows) \ {<<>>}}

\* many tag-0 rows of badge 001 around the threshold, a few of badge 002
ZeroTables ==
    LET zero1 == Row7(StrCell(TN001), DAY1, IntCell(0), IntCell(0), T0800)
        zero2 == Row7(StrCell(TN002), DAY1, IntCell(0), IntCell(0), T0800)
        five1 == Row7(StrCell(TN001), DAY1, IntCell(5), IntCell(1), T0805)
    IN {[columns |-> H_LOADED,
         rows |-> [r \in 1..k |-> zero1] \o [r \in 1..j |-> zero2] \o [r \in 1..e |-> five1]] :
            k \in (TAG_ZERO_WARNING_THRESHOLD - 1)..MaxZeroRows, j \in 0..2, e \in 0..1}

\* one more than the threshold of readings of badge 001, all with the same tag
\* and zone: tag "0", "0.0", "" or missing, or tag 5 in zone 0
NoSignalTables ==
    LET cells == {<<StrCell(<<"0">>), IntCell(0)>>, <<StrCell(<<"0", ".", "0">>), IntCell(0)>>,
                  <<StrCell(<<>>), IntCell(0)>>, <<NoneCell, IntCell(0)>>,
                  <<NoneCell, IntCell(1)>>, <<IntCell(5), IntCell(0)>>}
    IN {[columns |-> H_LOADED,
         rows |-> [r \in 1..(TAG_ZERO_WARNING_THRESHOLD + 1) |->
                     Row7(StrCell(TN001), DAY1, c[1], c[2], T0800)]] : c \in cells}

\* column layouts: legacy positions, narrow tables, renamed and reordered
\* headers, two synonyms of one field, service columns
LegacyRow(tm) ==
    [c \in 1..16 |->
        CASE c = 1 -> StrCell(TN001)
          [] c = 4 -> DAY1
          [] c = 11 -> IntCell(5)
          [] c = 12 -> IntCell(1)
          [] c = 16 -> tm
          [] OTHER -> StrCell(<<"x">>)]

UnknownHeaders == <<"c0", "c1", "c2", "c3", "c4", "c5", "c6", "c7", "c8", "c9", "c10",
                    "c11", "c12", "c13", "c14", "c15">>

ColumnLayouts ==
    {UnknownHeaders,
     SubSeq(UnknownHeaders, 1, 12),
     SubSeq(UnknownHeaders, 1, 4),
     SubSeq(UnknownHeaders, 1, 1),
     <<"Time", "ru:Zona", " TN ", "c3", "tag", "shift_day">>,
     <<"tn", "ru:TN", "c2", "ru:data", "_file_date">>,
     <<"c0", "_source_file", "_file_date", "c3">>,
     <<"c0", "Time", "tag", "c3", "zone name">>,
     SubSeq(UnknownHeaders, 1, 15) \o <<"time">>}

ColumnTables ==
    {[columns |-> cols,
      rows |-> [r \in 1..n |-> SubSeq(LegacyRow(IF r = 1 THEN T0800 ELSE T0805), 1, Len(cols))]] :
        cols \in ColumnLayouts, n \in 0..2}

Tables == SegTables \cup GapTables \cup GroupTables \cup ZoneTables \cup ViewTables
          \cup ZeroTables \cup NoSignalTables \cup ColumnTables

(***************************************************************************)
(* The run: process_full step by step, then the report's per-employee      *)
(* timeline data and the zone statistics                                   *)
(***************************************************************************)
NoTable == [columns |-> <<>>, rows |-> <<>>]

\* no helper function is being called
NoCall == [op |-> "none"]

Init ==
    /\ df \in Tables
    /\ pc = "loaded"
    /\ normalized = NoTable
    /\ parsed = NoTable
    /\ segments = <<>>
    /\ zero_tags = EmptyMap
    /\ gaps = EmptyMap
    /\ timeline = [report_date |-> 0, employee |-> <<>>, df_user |-> <<>>, data |-> NoTimeline,
                   zones |-> <<>>]
    /\ zone_statistics = [tn |-> <<>>, df_user |-> <<>>, stats |-> <<>>]
    /\ call = NoCall

\* process_full, step 1
Normalize ==
    /\ pc = "loaded"
    /\ normalized' = normalize_columns(df)
    /\ pc' = "normalized"
    /\ UNCHANGED <<call, df, parsed, segments, zero_tags, gaps, timeline, zone_statistics>>

\* process_full, step 2
ParseDates ==
    /\ pc = "normalized"
    /\ parsed' = parse_dates(normalized)
    /\ pc' = "parsed"
    /\ UNCHANGED <<call, df, normalized, segments, zero_tags, gaps, timeline, zone_statistics>>

\* process_full, step 3
BuildSegments ==
    /\ pc = "parsed"
    /\ segments' = build_segments(parsed, AreaMap, FioMap)
    /\ pc' = "built"
    /\ UNCHANGED <<call, df, normalized, parsed, zero_tags, gaps, timeline, zone_statistics>>

\* process_full, step 4
AnalyzeZeroTags ==
    /\ pc = "built"
    /\ zero_tags' = analyze_zero_tags(parsed)
    /\ pc' = "zero_checked"
    /\ UNCHANGED <<call, df, normalized, parsed, segments, gaps, timeline, zone_statistics>>

\* process_full, step 5, and its return
AnalyzeTimeGaps ==
    /\ pc = "zero_checked"
    /\ gaps' = analyze_time_gaps(segments, FioMap)
    /\ segments' = SegmentsAfterGaps(segments)
    /\ pc' = "done"
    /\ UNCHANGED <<call, df, normalized, parsed, zero_tags, timeline, zone_statistics>>

\* _group_by_date, then generate_combined_html's loop over groupby('employee'):
\* one call of prepare_timeline_data, on the segments process_full returned,
\* and the zone order of the section generated from its result
PrepareTimelineData ==
    /\ pc = "done"
    /\ \E key \in {<<segments[i].date, segments[i].employee>> : i \in 1..Len(segments)} :
          LET group == SelectSeq(segments, LAMBDA sg :
                           sg.date = key[1] /\ sg.employee = key[2])
              data == prepare_timeline_data(group, TagDescMap)
          IN timeline' = [report_date |-> key[1],
                          employee |-> key[2],
                          df_user |-> group,
                          data |-> data,
                          \* _generate_section_html: the accordion of the zones
                          zones |-> IF data.status = "ok" THEN sorted_zones(data) ELSE <<>>]
    /\ pc' = "timeline"
    /\ UNCHANGED <<call, df, normalized, parsed, segments, zero_tags, gaps, zone_statistics>>

\* one call of calculate_zone_statistics, on the segments of one badge
CalculateZoneStatistics ==
    /\ pc = "done"
    /\ \E tn \in {segments[i].tn_number : i \in 1..Len(segments)} :
          LET group == SegmentsOf(segments, tn)
          IN zone_statistics' = [tn |-> tn,
                                 df_user |-> group,
                                 stats |-> calculate_zone_statistics(group)]
    /\ pc' = "statistics"
    /\ UNCHANGED <<call, df, normalized, parsed, segments, zero_tags, gaps, timeline>>

Next ==
    \/ Normalize
    \/ ParseDates
    \/ BuildSegments
    \/ AnalyzeZeroTags
    \/ AnalyzeTimeGaps
    \/ PrepareTimelineData
    \/ CalculateZoneStatistics

Spec == Init /\ [][Next]_vars

(***************************************************************************)
(* Properties                                                              *)
(***************************************************************************)
\* build_segments has just returned
PostBuild == {"built"}

\* the groups build_segments forms over the parsed table, in its order
Keys == GroupKeys(parsed)

\* the readings of a group that carry a time of day, in row order
Readings(key) ==
    SelectSeq(parsed.rows, LAMBDA row :
        RowKey(parsed, row) = key /\ Cell(parsed, row, "time_only").k # "none")

\* their times of day, in seconds
Times(key) ==
    LET readings == Readings(key)
    IN [k \in 1..Len(readings) |-> Cell(parsed, readings[k], "time_only").n]

\* the number of such readings in the groups before the g-th
RECURSIVE Offset(_)
Offset(g) == IF g <= 1 THEN 0 ELSE Offset(g - 1) + Len(Readings(Keys[g - 1]))

ReadingsTotal == Offset(Len(Keys) + 1)

\* the segments emitted for the g-th group: groups are emitted one after the
\* other, one segment per reading
EmittedFor(g) == SubSeq(segments, Offset(g) + 1, Offset(g) + Len(Readings(Keys[g])))

\* the number of times the time of day went backwards among the first k times
Descents(times, k) == Cardinality({j \in 2..k : times[j] < times[j - 1]})

\* C1: every group of readings with a shift day yields exactly one segment per
\* reading that has a time of day (N segments for N such readings, equal times
\* included), labelled with the group's badge and shift day, and every
\* segment lasts exactly one minute
C1_OneSegmentPerReading ==
    pc \in PostBuild =>
        /\ Len(segments) = ReadingsTotal
        /\ \A g \in 1..Len(Keys) :
              LET times == Times(Keys[g])
                  segs == EmittedFor(g)
                  tn == TnStr(Keys[g][1])
                  day == Keys[g][2].n
              IN \A k \in 1..Len(times) :
                    /\ segs[k].tn_number = tn
                    /\ segs[k].date = day
                    /\ segs[k].start % SecondsPerDay = times[k]
        /\ \A i \in 1..Len(segments) :
              /\ segments[i].end - segments[i].start = 60
              /\ segments[i].duration_minutes = 1

\* C1 witness: a single group of at least three readings, all with a time of
\* day, two of them with the same one, has been built
C1_Witness ==
    /\ pc = "built"
    /\ Len(Keys) = 1
    /\ Len(Readings(Keys[1])) = Len(parsed.rows)
    /\ Len(segments) >= 3
    /\ \E i, j \in 1..Len(segments) : i < j /\ segments[i].start = segments[j].start

RolloverTimes == <<23 * 3600 + 58 * 60, 23 * 3600 + 59 * 60, 0, 60>>

\* C2: within a group, in row order, the k-th segment starts on shift_day plus
\* the number of times the time of day has gone strictly backwards so far, at
\* the reading's time of day, and keeps the shift day as its label; for
\* 23:58, 23:59, 00:00, 00:01 segments 3 and 4 start on the next day
C2_Rollover ==
    (pc \in PostBuild /\ Len(segments) = ReadingsTotal) =>
        \A g \in 1..Len(Keys) :
            LET day == Keys[g][2].n
                times == Times(Keys[g])
                segs == EmittedFor(g)
            IN /\ \A k \in 1..Len(times) :
                    /\ segs[k].start = (day + Descents(times, k)) * SecondsPerDay + times[k]
                    /\ segs[k].date = day
               /\ times = RolloverTimes =>
                    /\ segs[1].start \div SecondsPerDay = day
                    /\ segs[2].start \div SecondsPerDay = day
                    /\ segs[3].start \div SecondsPerDay = day + 1
                    /\ segs[4].start \div SecondsPerDay = day + 1

\* C2 witness: the group 23:58, 23:59, 00:00, 00:01 has been built
C2_Witness ==
    /\ pc = "built"
    /\ Len(Keys) = 1
    /\ Times(Keys[1]) = RolloverTimes
    /\ Len(segments) = 4
    /\ segments[4].start \div SecondsPerDay = segments[4].date + 1

\* C3 as stated: within a group the segments are strictly time-ordered, no
\* two with the same start
C3_StrictlyOrdered ==
    (pc \in PostBuild /\ Len(segments) = ReadingsTotal) =>
        \A g \in 1..Len(Keys) :
            LET segs == EmittedFor(g)
            IN \A k, l \in 1..Len(segs) : k < l => segs[k].start < segs[l].start

\* C3 amended: within a group the segments are emitted in non-decreasing start
\* order, and two consecutive segments have the same start exactly when their
\* readings have the same time of day
C3_WeaklyOrdered ==
    (pc \in PostBuild /\ Len(segments) = ReadingsTotal) =>
        \A g \in 1..Len(Keys) :
            LET times == Times(Keys[g])
                segs == EmittedFor(g)
            IN \A k \in 1..(Len(times) - 1) :
                  /\ segs[k].start <= segs[k + 1].start
                  /\ (segs[k].start = segs[k + 1].start) <=> (times[k] = times[k + 1])

\* C3 witness: a built group with two equal consecutive times and a rollover
C3_Witness ==
    /\ pc = "built"
    /\ \E g \in 1..Len(Keys) :
          LET times == Times(Keys[g])
          IN /\ \E k \in 1..(Len(times) - 1) : times[k] = times[k + 1]
             /\ \E k \in 1..(Len(times) - 1) : times[k] > times[k + 1]

\* analyze_zero_tags has just returned
ZeroChecked == {"zero_checked"}

\* C4: a badge is in the result of analyze_zero_tags exactly when it has more
\* than 100 tag-0 readings (100 or fewer: absent; 101 or more: present), and
\* then with its exact count
C4_OverexposureThreshold ==
    pc \in ZeroChecked =>
        /\ DOMAIN zero_tags \subseteq TnValues(parsed)
        /\ \A tn \in TnValues(parsed) :
              /\ ZeroCount(parsed, tn) <= 100 => tn \notin DOMAIN zero_tags
              /\ ZeroCount(parsed, tn) >= 101 =>
                    tn \in DOMAIN zero_tags /\ zero_tags[tn] = ZeroCount(parsed, tn)

\* C4 witness: badge 001 has 101 tag-0 readings and is reported with 101, and
\* badge 002 has some and is not reported
C4_Witness ==
    /\ pc = "zero_checked"
    /\ ZeroCount(parsed, StrCell(TN001)) = 101
    /\ StrCell(TN001) \in DOMAIN zero_tags
    /\ zero_tags[StrCell(TN001)] = 101
    /\ ZeroCount(parsed, StrCell(TN002)) > 0
    /\ StrCell(TN002) \notin DOMAIN zero_tags

\* the badges that have segments
SegmentTns == {segments[i].tn_number : i \in 1..Len(segments)}

\* the gap records reported for a badge
GapsFor(tn) == IF tn \in DOMAIN gaps THEN gaps[tn] ELSE <<>>

\* the hole between the k-th and the next of a list of segments, in seconds
Hole(segs, k) == segs[k + 1].start - segs[k].end

\* the records of list recs that run from the end of segs[k] to the next start
RecordsAt(recs, segs, k) ==
    {r \in 1..Len(recs) : recs[r].from = segs[k].end /\ recs[r].to = segs[k + 1].start}

\* C5: over one badge's segments sorted by start, a pair with
\* previous.end = next.start has no gap record, a pair with a 3-minute hole
\* has exactly one, and when every hole is longer than one minute the number
\* of gap records is the number of holes
C5_GapRecords ==
    pc = "done" =>
        \A tn \in SegmentTns :
            LET segs == SortByStart(SegmentsOf(segments, tn))
                recs == GapsFor(tn)
                pairs == 1..(Len(segs) - 1)
            IN /\ \A k \in pairs : Hole(segs, k) = 0 => RecordsAt(recs, segs, k) = {}
               /\ \A k \in pairs : Hole(segs, k) = 180 =>
                     Cardinality(RecordsAt(recs, segs, k)) = 1
               /\ (\A k \in pairs : Hole(segs, k) <= 0 \/ Hole(segs, k) > 60) =>
                     Len(recs) = Cardinality({k \in pairs : Hole(segs, k) > 60})

\* C5 witness: a badge with an adjacent pair, a 3-minute hole and another hole
\* has two gap records
C5_Witness ==
    /\ pc = "done"
    /\ \E tn \in SegmentTns :
          LET segs == SortByStart(SegmentsOf(segments, tn))
          IN /\ \E k \in 1..(Len(segs) - 1) : Hole(segs, k) = 0
             /\ \E k \in 1..(Len(segs) - 1) : Hole(segs, k) = 180
             /\ \A k \in 1..(Len(segs) - 1) : Hole(segs, k) = 0 \/ Hole(segs, k) > 60
             /\ Len(GapsFor(tn)) = 2

\* process_full has returned
Returned == {"done", "timeline", "statistics"}

\* the three rows (001, 2024-01-01, 5, 1) at 08:00, 08:01, 08:05
ScenarioTable ==
    [columns |-> H_STD,
     rows |-> <<Row5(StrCell(TN001), DAY1, IntCell(5), IntCell(1), T0800),
                Row5(StrCell(TN001), DAY1, IntCell(5), IntCell(1), T0801),
                Row5(StrCell(TN001), DAY1, IntCell(5), IntCell(1), T0805)>>]

\* the scenario's result but for gap_minutes: three segments, zone 1 totals
\* three minutes, one gap record from 08:02 to 08:05
ScenarioResult ==
    /\ Len(segments) = 3
    /\ zone_statistics.tn = TN001 =>
          /\ Len(zone_statistics.stats) = 1
          /\ zone_statistics.stats[1].zone_id = 1
          /\ zone_statistics.stats[1].total_minutes = 3
    /\ timeline.data.status = "ok" =>
          /\ DOMAIN timeline.data.zone_stats = {1}
          /\ timeline.data.zone_stats[1].minutes = 3
    /\ DOMAIN gaps = {TN001}
    /\ Len(gaps[TN001]) = 1
    /\ gaps[TN001][1].from = 8 * 3600 + 2 * 60
    /\ gaps[TN001][1].to = 8 * 3600 + 5 * 60

\* C6 as stated: the scenario's gap record reports gap_minutes = 2
C6_GapMinutesTwo ==
    (pc \in Returned /\ df = ScenarioTable) =>
        /\ ScenarioResult
        /\ gaps[TN001][1].gap_minutes.num = 2 * gaps[TN001][1].gap_minutes.den

\* C6 amended: the scenario yields three segments, a zone-1 total of three
\* minutes and one gap record from 08:02 to 08:05 whose gap_minutes is 3
C6_EndToEnd ==
    (pc \in Returned /\ df = ScenarioTable) =>
        /\ ScenarioResult
        /\ gaps[TN001][1].gap_minutes.num = 3 * gaps[TN001][1].gap_minutes.den

\* C6 witness: the scenario has run and its zone statistics are computed
C6_Witness ==
    /\ pc = "statistics"
    /\ df = ScenarioTable
    /\ zone_statistics.tn = TN001
    /\ Len(gaps[TN001]) = 1

RECURSIVE SumTotals(_, _)
SumTotals(stats, n) == IF n = 0 THEN 0 ELSE SumTotals(stats, n - 1) + stats[n].total_minutes

RECURSIVE SumMinutes(_, _)
SumMinutes(zone_stats, zones) ==
    IF zones = {} THEN 0
    ELSE LET z == CHOOSE x \in zones : TRUE
         IN zone_stats[z].minutes + SumMinutes(zone_stats, zones \ {z})

\* C7: the zone totals of one badge add up to the number of its segments, in
\* calculate_zone_statistics (one row per zone) and in the zone_stats of
\* prepare_timeline_data
C7_ZoneTotalsSum ==
    /\ zone_statistics.tn # <<>> =>
          LET stats == zone_statistics.stats
          IN /\ SumTotals(stats, Len(stats))
                  = Cardinality({i \in 1..Len(segments) :
                                    segments[i].tn_number = zone_statistics.tn})
             /\ \A a, b \in 1..Len(stats) : a # b => stats[a].zone_id # stats[b].zone_id
    /\ timeline.data.status = "ok" =>
          /\ SumMinutes(timeline.data.zone_stats, DOMAIN timeline.data.zone_stats)
               = Cardinality({i \in 1..Len(segments) :
                                 /\ segments[i].date = timeline.report_date
                                 /\ segments[i].employee = timeline.employee})
          /\ timeline.data.total = Len(timeline.df_user)

\* C7 witness: statistics of a badge with three segments in at least two
\* zones, one of them outside the catalog
C7_Witness ==
    /\ zone_statistics.tn # <<>>
    /\ Len(zone_statistics.df_user) = 3
    /\ Len(zone_statistics.stats) >= 2
    /\ \E a \in 1..Len(zone_statistics.stats) : zone_statistics.stats[a].zone_id \notin ZONE_IDS

\* the number of segments of list segs whose zone is in set Z
InZones(segs, Z) == Cardinality({i \in 1..Len(segs) : segs[i].zone_id \in Z})

\* C8: each catalog zone 0..13 is in exactly one KPI group, and the four
\* counts of a timeline add up to its number of segments: work and breaks count
\* their groups, no_ble counts zone 0, other counts its group and every zone
\* outside the catalog
C8_KpiPartition ==
    /\ \A z \in ZONE_IDS : Cardinality({name \in KPI_NAMES : z \in KPI_GROUPS(name)}) = 1
    /\ 0 \in KPI_GROUPS("no_ble")
    /\ timeline.data.status = "ok" =>
          LET kpi == timeline.data.kpi
              segs == timeline.df_user
          IN /\ kpi["work"] + kpi["breaks"] + kpi["no_ble"] + kpi["other"] = Len(segs)
             /\ kpi["work"] = InZones(segs, KPI_GROUPS("work"))
             /\ kpi["breaks"] = InZones(segs, KPI_GROUPS("breaks"))
             /\ kpi["no_ble"] = InZones(segs, {0})
             /\ kpi["other"] = Len(segs) - InZones(segs, ZONE_IDS)
                                 + InZones(segs, KPI_GROUPS("other"))

\* C8 witness: a timeline with a work segment, a zone-0 segment and a segment
\* of a zone outside the catalog
C8_Witness ==
    /\ timeline.data.status = "ok"
    /\ timeline.data.kpi["work"] = 1
    /\ timeline.data.kpi["no_ble"] = 1
    /\ timeline.data.kpi["other"] = 1
    /\ \E i \in 1..Len(timeline.df_user) : timeline.df_user[i].zone_id \notin ZONE_IDS

\* C9: every segment's minute is the whole minutes from midnight of the day
\* of the earliest segment to its start, first_minute and last_minute are the
\* least and the greatest of them, the viewport runs from
\* floor(first_minute/60)*60 to (floor(last_minute/60)+1)*60, and it is
\* [120, 660) for minutes [125, 610]
C9_Viewport ==
    timeline.data.status = "ok" =>
        LET data == timeline.data
            segs == timeline.df_user
            earliest == CHOOSE x \in {segs[i].start : i \in 1..Len(segs)} :
                            \A i \in 1..Len(segs) : x <= segs[i].start
            midnight == earliest - (earliest % SecondsPerDay)
            minutes == {data.segments[i].minute : i \in 1..Len(segs)}
        IN /\ Len(data.segments) = Len(segs)
           /\ \A i \in 1..Len(segs) :
                 /\ data.segments[i].minute * 60 <= segs[i].start - midnight
                 /\ segs[i].start - midnight < (data.segments[i].minute + 1) * 60
           /\ data.first_minute \in minutes /\ \A m \in minutes : data.first_minute <= m
           /\ data.last_minute \in minutes /\ \A m \in minutes : data.last_minute >= m
           /\ data.viewport_start = (data.first_minute \div 60) * 60
           /\ data.viewport_end = ((data.last_minute \div 60) + 1) * 60
           /\ (data.first_minute = 125 /\ data.last_minute = 610) =>
                 (data.viewport_start = 120 /\ data.viewport_end = 660)

\* C9 witness: a timeline whose segments span minutes 125 to 610
C9_Witness ==
    /\ timeline.data.status = "ok"
    /\ timeline.data.first_minute = 125
    /\ timeline.data.last_minute = 610
    /\ timeline.data.viewport_start = 120
    /\ timeline.data.viewport_end = 660

\* C10 as stated: the normalized table has exactly the five standard columns
\* and as many rows as the input
C10_ExactlyFiveColumns ==
    pc # "loaded" =>
        /\ normalized.columns = STANDARD_COLUMNS
        /\ Len(normalized.rows) = Len(df.rows)

\* the service columns of the input table, in the order the normalizer copies them
ServiceColumnsOf(t) ==
    SelectSeq(<<"_source_file", "_file_date">>,
              LAMBDA m : \E i \in 1..Len(t.columns) : t.columns[i] = m)

\* C10 amended: the normalized table has as many rows as the input; its first
\* five columns are the standard ones in order, followed only by those of
\* _source_file, _file_date that a non-empty input has
C10_FiveColumnsThenService ==
    pc # "loaded" =>
        /\ Len(normalized.rows) = Len(df.rows)
        /\ \A r \in 1..Len(normalized.rows) :
              Len(normalized.rows[r]) = Len(normalized.columns)
        /\ normalized.columns =
              STANDARD_COLUMNS \o (IF Len(df.rows) = 0 THEN <<>> ELSE ServiceColumnsOf(df))

\* C10 witness: a loaded file with rows and both service columns has been
\* normalized to seven columns
C10_Witness ==
    /\ pc = "normalized"
    /\ Len(df.rows) > 0
    /\ Len(ServiceColumnsOf(df)) = 2
    /\ Len(normalized.columns) = 7

(***************************************************************************)
(* Column resolution                                                       *)
(***************************************************************************)
\* normalize_columns has just returned
Normalized == pc = "normalized"

\* the columns of table t whose trimmed, lower-cased header is a synonym of
\* the standard column std_col
ExactMatches(t, std_col) ==
    {i \in 1..Len(t.columns) : COLUMN_MAPPING(LowerStrip(t.columns[i])) = std_col}

\* the standard column one of whose synonyms the header contains without
\* being equal to it, for the headers of the input tables; "" for none
ContainedSynonym(col) ==
    CASE col = "zone name" -> "zone_id"
      [] OTHER -> ""

\* the columns of table t whose header contains a synonym of std_col
SubstringMatches(t, std_col) ==
    {i \in 1..Len(t.columns) : ContainedSynonym(t.columns[i]) = std_col}

First(S) == CHOOSE i \in S : \A j \in S : i <= j

\* the k-th standard column of the normalized table is, row by row, column i
\* of the input (i = 0: None in every row)
TakenFrom(k, i) ==
    \A r \in 1..Len(df.rows) :
        normalized.rows[r][k] = IF i = 0 THEN NoneCell ELSE df.rows[r][i]

\* the column at the fixed position of a standard column, 0 beyond the width
AtPosition(t, std_col) ==
    IF DEFAULT_POSITIONS(std_col) < Len(t.columns) THEN DEFAULT_POSITIONS(std_col) + 1 ELSE 0

\* C11 as stated: three steps per standard column: the first header equal to
\* a synonym, else the first header containing a synonym, else the fixed
\* position, else None in every row
C11_ThreeSteps ==
    (Normalized /\ ~Empty(df)) =>
        \A k \in 1..Len(STANDARD_COLUMNS) :
            LET c == STANDARD_COLUMNS[k]
            IN TakenFrom(k, IF ExactMatches(df, c) # {} THEN First(ExactMatches(df, c))
                            ELSE IF SubstringMatches(df, c) # {}
                                 THEN First(SubstringMatches(df, c))
                            ELSE AtPosition(df, c))

\* C11 amended: two steps per standard column: the first header equal to a
\* synonym after trimming and lower-casing, else (a header that only contains
\* a synonym does not match) the fixed position 0, 3, 10, 11, 15, else None in
\* every row when the position is beyond the width
C11_ExactThenPosition ==
    /\ <<DEFAULT_POSITIONS("tn_number"), DEFAULT_POSITIONS("shift_day"),
         DEFAULT_POSITIONS("ble_tag"), DEFAULT_POSITIONS("zone_id"),
         DEFAULT_POSITIONS("time_only")>> = <<0, 3, 10, 11, 15>>
    /\ (Normalized /\ ~Empty(df)) =>
          \A k \in 1..Len(STANDARD_COLUMNS) :
              LET c == STANDARD_COLUMNS[k]
              IN TakenFrom(k, IF ExactMatches(df, c) # {} THEN First(ExactMatches(df, c))
                              ELSE AtPosition(df, c))

\* C11 witness: a normalized table with rows in which one field was found by
\* a header away from its fixed position, one by its position, and one,
\* whose synonym a header only contains, is None for lack of width
C11_Witness ==
    /\ Normalized
    /\ Len(df.rows) > 0
    /\ \E c \in {"ble_tag"} :
          /\ ExactMatches(df, c) # {}
          /\ First(ExactMatches(df, c)) # DEFAULT_POSITIONS(c) + 1
    /\ ExactMatches(df, "tn_number") = {} /\ AtPosition(df, "tn_number") = 1
    /\ ExactMatches(df, "zone_id") = {}
    /\ SubstringMatches(df, "zone_id") # {}
    /\ AtPosition(df, "zone_id") = 0
    /\ \A r \in 1..Len(df.rows) : normalized.rows[r][4] = NoneCell

(***************************************************************************)
(* DataProcessor.round_051                                                 *)
(*                                                                         *)
(* A non-negative float is a record [whole, milli, rest] that stands for   *)
(* whole + milli/1000 + rest/10^10, with milli in 0..999 and rest in       *)
(* 0..9999999.  The values used are multiples of 5*10^-10, so the float    *)
(* nearest to one differs from it by far less than its distance to any     *)
(* value it is compared with; the value 0.51 - 1e-9 itself, on which the   *)
(* comparison depends on the rounding of the float, is not among them.     *)
(***************************************************************************)
Float(whole, milli, rest) == [whole |-> whole, milli |-> milli, rest |-> rest]

\* fractional_part >= bound, for a bound [milli, rest]
FracAtLeast(value, bound) ==
    \/ value.milli > bound.milli
    \/ value.milli = bound.milli /\ value.rest >= bound.rest

\* 0.51 - 1e-9
ROUND_UP_FROM == [milli |-> 509, rest |-> 9999990]

\* variant: rounding up from one half
RoundsUp_half(value) == FracAtLeast(value, [milli |-> 500, rest |-> 0])

\* if fractional_part >= 0.51 - 1e-9
RoundsUp(value) == FracAtLeast(value, ROUND_UP_FROM)

round_051(value) == IF RoundsUp(value) THEN value.whole + 1 ELSE value.whole

MaxWhole == 11

\* fractional parts around one half and around 0.51
Fractions ==
    {<<0, 0>>, <<0, 1>>, <<500, 0>>, <<509, 0>>, <<509, 9999985>>, <<509, 9999995>>,
     <<510, 0>>, <<510, 5>>, <<999, 0>>}

Round051Calls ==
    {[op |-> "round_051", arg |-> Float(n, f[1], f[2]), returned |-> FALSE, result |-> 0] :
        n \in 0..MaxWhole, f \in Fractions}

Round051 ==
    /\ call.op = "round_051"
    /\ ~call.returned
    /\ call' = [call EXCEPT !.returned = TRUE, !.result = round_051(call.arg)]
    /\ UNCHANGED <<pc, df, normalized, parsed, segments, zero_tags, gaps, timeline,
                   zone_statistics>>

\* round_051 has returned
Rounded == call.op = "round_051" /\ call.returned

\* C12 as stated: the result is floor(x) + 1 exactly when the fractional part
\* is at least 0.51, and floor(x) otherwise
C12_RoundsUpFrom051 ==
    Rounded =>
        LET x == call.arg
            up == x.milli >= 510
        IN call.result = IF up THEN x.whole + 1 ELSE x.whole

\* C12 amended: the result is floor(x) + 1 exactly when the fractional part is
\* at least 0.51 - 0.000000001, and floor(x) otherwise; n + 0.50 gives n and
\* n + 0.51 gives n + 1
C12_RoundsUpWithTolerance ==
    Rounded =>
        LET x == call.arg
            \* the fractional part in units of 10^-10, in two halves that fit
            up == x.milli * 10 + x.rest \div 1000000 > 5099
                  \/ (x.milli * 10 + x.rest \div 1000000 = 5099
                      /\ x.rest % 1000000 >= 999990)
        IN /\ call.result = IF up THEN x.whole + 1 ELSE x.whole
           /\ (x.milli = 500 /\ x.rest = 0) => call.result = x.whole
           /\ (x.milli = 510 /\ x.rest = 0) => call.result = x.whole + 1

\* C12 witness: a value whose fractional part lies between 0.51 - 1e-9 and
\* 0.51 has been rounded up
C12_Witness ==
    /\ Rounded
    /\ call.arg = Float(7, 509, 9999995)
    /\ call.result = 8

(***************************************************************************)
(* DataProcessor.parse_time, called on its own                             *)
(***************************************************************************)
\* "H:MM" and "H:MM:SS" strings with hours, minutes and seconds in and out of range
ClockStrings ==
    {h \o <<":">> \o m \o sec :
        h \in {<<"8">>, <<"0", "8">>, <<"2", "3">>, <<"2", "4">>},
        m \in {<<"0", "0">>, <<"5", "9">>, <<"6", "0">>},
        sec \in {<<>>, <<":", "0", "0">>, <<":", "3", "0">>, <<":", "6", "1">>}}

OtherStrings ==
    {<<>>, <<" ">>, <<" ", "8", ":", "0", "0", " ">>, <<"0", ".", "5">>, <<"1", ".", "5">>,
     <<"a", "b", "c">>, <<"8", ":", "0">>, <<"0", "0", "8", ":", "0", "0">>}

TimeArguments ==
    {NoneCell, NaTCell, DateTimeCell(8 * 3600), DateTimeCell(SecondsPerDay + 86399)}
    \cup {TimeCell(t) : t \in {0, 1, 8 * 3600, 86399}}
    \cup {IntCell(n) : n \in {0, 1, 45292}}
    \cup {FloatCell(f) : f \in {0, 500, 999, 1500, 45292250, 0 - 500}}
    \cup {StrCell(str) : str \in ClockStrings \cup OtherStrings}

ParseTimeCalls ==
    {[op |-> "parse_time", arg |-> v, returned |-> FALSE, result |-> NoneCell] :
        v \in TimeArguments}

ParseTime ==
    /\ call.op = "parse_time"
    /\ ~call.returned
    /\ call' = [call EXCEPT !.returned = TRUE, !.result = parse_time(call.arg)]
    /\ UNCHANGED <<pc, df, normalized, parsed, segments, zero_tags, gaps, timeline,
                   zone_statistics>>

\* C13: parse_time never raises (the result is a time of day or None), a time
\* of day is returned unchanged, and parsing the result again gives the result
C13_TotalIdempotent ==
    (call.op = "parse_time" /\ call.returned) =>
        /\ call.result.k \in {"time", "none"}
        /\ call.arg.k = "time" => call.result = call.arg
        /\ parse_time(call.result) = call.result

(***************************************************************************)
(* What the overexposure check counts                                      *)
(***************************************************************************)
\* a reading without a signal: zone 0, or a tag that is "0", "0.0", numeric
\* zero, empty or missing
NoSignalReading(t, row) ==
    LET tag == Cell(t, row, "ble_tag")
        zone == Cell(t, row, "zone_id")
    IN \/ zone.k \in {"int", "float"} /\ zone.n = 0
       \/ tag.k = "none"
       \/ tag.k \in {"int", "float"} /\ tag.n = 0
       \/ tag.k = "str" /\ Strip(tag.s) \in {<<>>, <<"0">>, <<"0", ".", "0">>}

NoSignalCount(t, tn) ==
    Cardinality({r \in 1..Len(t.rows) :
        Cell(t, t.rows[r], "tn_number") = tn /\ NoSignalReading(t, t.rows[r])})

\* C14: the count the overexposure check compares with the threshold is the
\* number of the badge's readings in zone 0 or with a tag "0", "0.0", numeric
\* zero, empty or missing: a badge is reported exactly when that count exceeds
\* 100, and with that count
C14_CountsBothVariants ==
    pc \in ZeroChecked =>
        \A tn \in TnValues(parsed) :
            /\ tn \in DOMAIN zero_tags <=> NoSignalCount(parsed, tn) > 100
            /\ tn \in DOMAIN zero_tags => zero_tags[tn] = NoSignalCount(parsed, tn)

(***************************************************************************)
(* The anomaly checks and the segments                                     *)
(***************************************************************************)
\* C15: the segments process_full returns are exactly those build_segments
\* produced from the parsed table, whatever analyze_zero_tags and
\* analyze_time_gaps reported
C15_SegmentsUntouched ==
    pc = "done" => segments = build_segments(parsed, AreaMap, FioMap)

\* C15 witness: process_full has returned the segments of a table in which a
\* badge is flagged for overexposure and a gap is reported, and of whose
\* segments some are not in start order
C15_Witness ==
    /\ pc = "done"
    /\ DOMAIN zero_tags # {}
    /\ DOMAIN gaps # {}
    /\ Len(segments) > TAG_ZERO_WARNING_THRESHOLD
    /\ segments = build_segments(parsed, AreaMap, FioMap)

(***************************************************************************)
(* DataProcessor.infer_file_date                                           *)
(***************************************************************************)
\* priority_columns, already lower-cased
PRIORITY_COLUMNS == <<"date", "ru:data", "ru:data na obekte", "shift_day", "ru:den smeny">>

\* index (from 1) of the first column whose lowered, stripped label is name;
\* 0 when there is none
MatchingCol(t, name) ==
    LET hits == {i \in 1..Len(t.columns) : LowerStrip(t.columns[i]) = name}
    IN IF hits = {} THEN 0 ELSE CHOOSE i \in hits : \A j \in hits : i <= j

\* the loop over the values of column c: the first row whose value is not
\* null and parses, 0 when there is none
ParseableRow(t, c) ==
    LET rows == {r \in 1..Len(t.rows) : _parse_date_value(t.rows[r][c]).k # "none"}
    IN IF rows = {} THEN 0 ELSE CHOOSE r \in rows : \A q \in rows : r <= q

\* variant: the shift-day names are tried first
PriorityFrom_shift_first(p) == <<4, 5, 1, 2, 3>>[p]

\* the p-th name tried
PriorityFrom(p) == p

\* the outer loop from the p-th name on
RECURSIVE InferFrom(_, _)
InferFrom(t, p) ==
    IF p > Len(PRIORITY_COLUMNS) THEN NoneCell
    ELSE LET c == MatchingCol(t, PRIORITY_COLUMNS[PriorityFrom(p)])
         IN IF c = 0 THEN InferFrom(t, p + 1)
            ELSE IF ParseableRow(t, c) = 0 THEN InferFrom(t, p + 1)
            ELSE _parse_date_value(t.rows[ParseableRow(t, c)][c])

infer_file_date(t) == IF Empty(t) THEN NoneCell ELSE InferFrom(t, 1)

MaxInferRows == 2

InferLayouts ==
    {<<"shift_day", "Date">>,
     <<"ru:Den smeny", "ru:data na obekte">>,
     <<"ru:Data", "date">>,
     <<" Shift_Day ", "ru:data na obekte">>,
     <<"c0", "ru:Den smeny">>,
     <<"c0", "c1">>}

InferCells == {NoneCell, BADDAY, DAY1, DAY2}

InferTables ==
    {[columns |-> cols, rows |-> rs] :
        cols \in InferLayouts,
        rs \in SeqsUpTo([1..2 -> InferCells], MaxInferRows)}

InferFileDateCalls ==
    {[op |-> "infer_file_date", arg |-> t, returned |-> FALSE, result |-> NoneCell] :
        t \in InferTables}

InferFileDate ==
    /\ call.op = "infer_file_date"
    /\ ~call.returned
    /\ call' = [call EXCEPT !.returned = TRUE, !.result = infer_file_date(call.arg)]
    /\ UNCHANGED <<pc, df, normalized, parsed, segments, zero_tags, gaps, timeline,
                   zone_statistics>>

\* the candidate columns of table t by rank: 1 for date, 2 for the Russian
\* "data", 3 for "data na obekte", 4 and 5 for the shift-day names
RankOf(t, i) ==
    LET label == LowerStrip(t.columns[i])
    IN CASE label = "date" -> 1
         [] label = "ru:data" -> 2
         [] label = "ru:data na obekte" -> 3
         [] label = "shift_day" -> 4
         [] label = "ru:den smeny" -> 5
         [] OTHER -> 0

\* the value at row r of column i is not null and parses as a date
Parses(t, r, i) ==
    LET v == t.rows[r][i]
    IN v.k # "none" /\ (v.k = "date" \/ (v.k = "str" /\ ParseDateStr(v.s).k = "date"))

\* C16: the result is the first parseable value (no later one) of the
\* highest-ranked candidate column that has one, candidates ranked date, then
\* "data na obekte", then the shift day; it is None exactly when no candidate
\* column has a parseable value
C16_PriorityThenFirstValue ==
    (call.op = "infer_file_date" /\ call.returned) =>
        LET t == call.arg
            yielding == {i \in 1..Len(t.columns) :
                            RankOf(t, i) > 0 /\ \E r \in 1..Len(t.rows) : Parses(t, r, i)}
        IN /\ yielding = {} <=> call.result.k = "none"
           /\ yielding # {} =>
                 \E i \in yielding :
                    /\ \A j \in yielding : RankOf(t, i) <= RankOf(t, j)
                    /\ \E r \in 1..Len(t.rows) :
                          /\ Parses(t, r, i)
                          /\ \A q \in 1..(r - 1) : ~Parses(t, q, i)
                          /\ call.result = _parse_date_value(t.rows[r][i])

\* C16 witness: the date column is listed after the shift-day column, its
\* first value is present but does not parse, its second is returned, and the
\* shift-day column holds another date in its first row
C16_Witness ==
    /\ call.op = "infer_file_date"
    /\ call.returned
    /\ call.arg.columns = <<"shift_day", "Date">>
    /\ Len(call.arg.rows) = 2
    /\ call.arg.rows[1] = <<DAY2, BADDAY>>
    /\ call.arg.rows[2] = <<DAY2, DAY1>>
    /\ call.result = DateCell(0)

(***************************************************************************)
(* The order of the zones in the breakdown                                 *)
(***************************************************************************)
\* a timeline and its section have been generated
Reported == pc = "timeline" /\ timeline.data.status = "ok"

\* the zones present in the breakdown
ZonesPresent == DOMAIN timeline.data.zone_stats

\* the place (from 1) of zone z in the list shown
PlaceOf(z) == CHOOSE n \in 1..Len(timeline.zones) : timeline.zones[n] = z

\* the list shown holds every zone present once
ShowsEachZoneOnce ==
    /\ {timeline.zones[n] : n \in 1..Len(timeline.zones)} = ZonesPresent
    /\ Len(timeline.zones) = Cardinality(ZonesPresent)

\* the place (from 1) of zone z in list order, 0 when it is not in it
IndexIn(order, z) ==
    IF \E i \in 1..Len(order) : order[i] = z
    THEN CHOOSE i \in 1..Len(order) : order[i] = z
    ELSE 0

\* the index of the first segment of zone z
FirstSegmentOf(z) ==
    CHOOSE i \in 1..Len(timeline.data.segments) :
        /\ timeline.data.segments[i].zone = z
        /\ \A j \in 1..(i - 1) : timeline.data.segments[j].zone # z

PreferenceList == <<1, 4, 10, 13, 2, 7, 0>>

\* C17 as stated: the zones of the preference list 1, 4, 10, 13, 2, 7, 0 come
\* first, in that order, and every other zone follows in ascending zone id
C17_PreferenceThenAscending ==
    Reported =>
        /\ ShowsEachZoneOnce
        /\ \A a, b \in ZonesPresent :
              LET ia == IndexIn(PreferenceList, a)
                  ib == IndexIn(PreferenceList, b)
                  first == \/ ia > 0 /\ ib > 0 /\ ia < ib
                           \/ ia > 0 /\ ib = 0
                           \/ ia = 0 /\ ib = 0 /\ a < b
              IN first => PlaceOf(a) < PlaceOf(b)

\* C17 amended: the zones come in the order 1, 4, 10, 13, 2, 7, 0, 5, 3, 6, 8,
\* 9, 11, 12, and the zones outside that list follow, in the order of their
\* first segment
C17_ZoneOrderThenFirstSeen ==
    Reported =>
        /\ ShowsEachZoneOnce
        /\ \A a, b \in ZonesPresent :
              LET ia == IndexIn(<<1, 4, 10, 13, 2, 7, 0, 5, 3, 6, 8, 9, 11, 12>>, a)
                  ib == IndexIn(<<1, 4, 10, 13, 2, 7, 0, 5, 3, 6, 8, 9, 11, 12>>, b)
                  first == \/ ia > 0 /\ ib > 0 /\ ia < ib
                           \/ ia > 0 /\ ib = 0
                           \/ ia = 0 /\ ib = 0 /\ FirstSegmentOf(a) < FirstSegmentOf(b)
              IN first => PlaceOf(a) < PlaceOf(b)

\* C17 witness: zone 5 is shown before zone 3, which had the earlier segment,
\* and both after zone 1
C17_Witness ==
    /\ Reported
    /\ timeline.zones = <<1, 5, 3>>
    /\ FirstSegmentOf(3) < FirstSegmentOf(5)
    /\ FirstSegmentOf(5) < FirstSegmentOf(1)

(***************************************************************************)
(* TelegramLogger._split_message                                           *)
(***************************************************************************)
MAX_MESSAGE_LENGTH == 4096

\* remaining.rfind('\n', 0, limit): the 0-based index of the last newline
\* among the first limit characters, -1 when there is none
rfind_newline(remaining, limit) ==
    LET upto == IF Len(remaining) < limit THEN Len(remaining) ELSE limit
        found == {i \in 1..upto : remaining[i] = "\n"}
    IN IF found = {} THEN 0 - 1
       ELSE (CHOOSE i \in found : \A j \in found : j <= i) - 1

\* s.lstrip('\n')
lstrip_newlines(s) ==
    IF \A i \in 1..Len(s) : s[i] = "\n" THEN <<>>
    ELSE LET first == CHOOSE i \in 1..Len(s) :
                          /\ s[i] # "\n"
                          /\ \A j \in 1..(i - 1) : s[j] = "\n"
         IN SubSeq(s, first, Len(s))

\* the place of the cut: the last newline within the limit, the limit itself
\* when there is none or when it is the first character
SplitPos(remaining) ==
    LET split_pos == rfind_newline(remaining, MAX_MESSAGE_LENGTH)
    IN IF split_pos = 0 - 1 \/ split_pos = 0 THEN MAX_MESSAGE_LENGTH ELSE split_pos

\* the while loop of _split_message
RECURSIVE SplitLoop(_, _)
SplitLoop(parts, remaining) ==
    IF remaining = <<>> THEN parts
    ELSE IF Len(remaining) <= MAX_MESSAGE_LENGTH THEN Append(parts, remaining)
    ELSE LET split_pos == SplitPos(remaining)
         IN SplitLoop(Append(parts, SubSeq(remaining, 1, split_pos)),
                      lstrip_newlines(SubSeq(remaining, split_pos + 1, Len(remaining))))

_split_message(message) ==
    IF message = <<>> THEN <<>>
    ELSE IF Len(message) <= MAX_MESSAGE_LENGTH THEN <<message>>
    ELSE SplitLoop(<<>>, message)

\* the longest run of newlines in the messages tried
MaxNewlines == 2

\* n times the character c
Run(c, n) == [i \in 1..n |-> c]

\* the messages tried: a run of "a", newlines, a run of "b", newlines, the
\* runs of letters empty, short, or as long as the limit give or take one
Messages ==
    {Run("a", n1) \o Run("\n", k1) \o Run("b", n2) \o Run("\n", k2) :
        n1 \in {0, 1, MAX_MESSAGE_LENGTH - 1, MAX_MESSAGE_LENGTH, MAX_MESSAGE_LENGTH + 1},
        k1 \in 0..MaxNewlines,
        n2 \in {0, 1, MAX_MESSAGE_LENGTH},
        k2 \in 0..MaxNewlines}

SplitMessageCalls ==
    {[op |-> "_split_message", arg |-> m, returned |-> FALSE, result |-> <<>>] :
        m \in Messages}

SplitMessage ==
    /\ call.op = "_split_message"
    /\ ~call.returned
    /\ call' = [call EXCEPT !.returned = TRUE, !.result = _split_message(call.arg)]
    /\ UNCHANGED <<pc, df, normalized, parsed, segments, zero_tags, gaps, timeline,
                   zone_statistics>>

\* _split_message has returned
Split == call.op = "_split_message" /\ call.returned

\* s begins with part p
StartsWith(s, p) == Len(p) <= Len(s) /\ SubSeq(s, 1, Len(p)) = p

\* the parts, in order, make up the message s once the newlines that follow
\* each part in s are dropped
RECURSIVE Reproduces(_, _)
Reproduces(parts, s) ==
    IF parts = <<>> THEN s = <<>>
    ELSE /\ StartsWith(s, Head(parts))
         /\ Reproduces(Tail(parts),
                       lstrip_newlines(SubSeq(s, Len(Head(parts)) + 1, Len(s))))

\* every part is at most 4096 characters long
PartsWithinLimit ==
    Split => \A i \in 1..Len(call.result) : Len(call.result[i]) <= 4096

\* a non-empty message of at most 4096 characters comes back as one part
ShortMessageIsOnePart ==
    Split /\ Len(call.arg) \in 1..4096 => call.result = <<call.arg>>

\* the parts reproduce the message but for the newlines dropped at the cuts
PartsReproduceMessage ==
    Split => Reproduces(call.result, call.arg)

\* a message longer than 4096 characters comes back as more than one part
LongMessageIsSplit ==
    Split /\ Len(call.arg) > 4096 => Len(call.result) > 1

\* C18: every part of _split_message is at most 4096 characters long, a
\* non-empty message within the limit comes back as the one part, a longer
\* message comes back as more than one part, and the parts reproduce the
\* message but for the newlines dropped at the cuts
C18_SplitMessage ==
    /\ PartsWithinLimit
    /\ ShortMessageIsOnePart
    /\ LongMessageIsSplit
    /\ PartsReproduceMessage

(***************************************************************************)
(* GoogleDriveClient.list_files and main.filter_files_by_date_range        *)
(***************************************************************************)
\* date.fromisoformat on the texts DATE_PATTERN can match in the names tried:
\* the day of June 2024, month 13 has none
IsoDates ==
    ("2024-06-01" :> 1) @@ ("2024-06-02" :> 2) @@ ("2024-06-03" :> 3) @@ ("2024-06-04" :> 4)

\* DATE_PATTERN: four digits, two digits, two digits, with dashes
MatchesDatePattern(piece) == piece \in DOMAIN IsoDates \cup {"2024-13-45"}

NoDate == [k |-> "none"]

\* a file name is a sequence of pieces; the first piece of the shape of a date
\* is read, None when there is none or when it is no date of the calendar
_extract_date_from_filename(filename) ==
    LET found == {i \in 1..Len(filename) : MatchesDatePattern(filename[i])}
    IN IF found = {} THEN NoDate
       ELSE LET match == filename[CHOOSE i \in found : \A j \in found : i <= j]
            IN IF match \in DOMAIN IsoDates
               THEN [k |-> "date", n |-> IsoDates[match]]
               ELSE NoDate

\* the loop over one page of the listing: the two ends of the range are
\* tested only under "if file_date"
list_files(names, date_from, date_to) ==
    LET file(i) == [name |-> names[i],
                    file_date |-> _extract_date_from_filename(names[i])]
        kept(f) ==
            IF f.file_date # NoDate
            THEN /\ ~(date_from # NoDate /\ f.file_date.n < date_from.n)
                 /\ ~(date_to # NoDate /\ f.file_date.n > date_to.n)
            ELSE TRUE
    IN SelectSeq([i \in 1..Len(names) |-> file(i)], kept)

filter_files_by_date_range(files, date_from, date_to) ==
    LET kept(f) ==
            IF f.file_date = NoDate
            THEN date_from = NoDate /\ date_to = NoDate
            ELSE /\ ~(date_from # NoDate /\ f.file_date.n < date_from.n)
                 /\ ~(date_to # NoDate /\ f.file_date.n > date_to.n)
    IN SelectSeq(files, kept)

\* the number of files in a folder
MaxFiles == 2

FileNames ==
    {<<"AA_BLE_", d, ".xlsx">> : d \in DOMAIN IsoDates \cup {"2024-13-45"}}
        \cup {<<"report", ".xlsx">>, <<"2024-06-03", "_", "2024-06-01", ".xlsx">>}

Folders == UNION {[1..n -> FileNames] : n \in 0..MaxFiles}

Day(n) == [k |-> "date", n |-> n]

\* the ranges tried: none, both ends, one end, one day, an empty range
DateRanges ==
    {<<NoDate, NoDate>>, <<Day(2), Day(3)>>, <<Day(2), NoDate>>, <<NoDate, Day(3)>>,
     <<Day(2), Day(2)>>, <<Day(3), Day(2)>>}

ListFilesCalls ==
    {[op |-> "list_files", arg |-> [names |-> names, date_from |-> r[1], date_to |-> r[2]],
      returned |-> FALSE, result |-> <<>>] : names \in Folders, r \in DateRanges}

\* the files handed to the filter are those of a listing without a range
FilterFilesCalls ==
    {[op |-> "filter_files_by_date_range",
      arg |-> [files |-> list_files(names, NoDate, NoDate),
               date_from |-> r[1], date_to |-> r[2]],
      returned |-> FALSE, result |-> <<>>] : names \in Folders, r \in DateRanges}

ListFiles ==
    /\ call.op = "list_files"
    /\ ~call.returned
    /\ call' = [call EXCEPT !.returned = TRUE,
                            !.result = list_files(call.arg.names, call.arg.date_from,
                                                  call.arg.date_to)]
    /\ UNCHANGED <<pc, df, normalized, parsed, segments, zero_tags, gaps, timeline,
                   zone_statistics>>

FilterFilesByDateRange ==
    /\ call.op = "filter_files_by_date_range"
    /\ ~call.returned
    /\ call' = [call EXCEPT !.returned = TRUE,
                            !.result = filter_files_by_date_range(call.arg.files,
                                           call.arg.date_from, call.arg.date_to)]
    /\ UNCHANGED <<pc, df, normalized, parsed, segments, zero_tags, gaps, timeline,
                   zone_statistics>>

\* the files offered to the call, each with the date of its name
Offered ==
    IF call.op = "list_files"
    THEN [i \in 1..Len(call.arg.names) |->
             [name |-> call.arg.names[i],
              file_date |-> _extract_date_from_filename(call.arg.names[i])]]
    ELSE call.arg.files

\* a range is given: at least one of its ends
RangeGiven == call.arg.date_from # NoDate \/ call.arg.date_to # NoDate

\* the file carries a date that lies within the range, both ends included
WithinRange(f) ==
    /\ f.file_date # NoDate
    /\ call.arg.date_from # NoDate => call.arg.date_from.n <= f.file_date.n
    /\ call.arg.date_to # NoDate => f.file_date.n <= call.arg.date_to.n

\* with a range given, the files kept are those dated within it, in order
KeepsTheRange == RangeGiven => call.result = SelectSeq(Offered, WithinRange)

\* filter_files_by_date_range keeps exactly the files dated within the range
FilterKeepsTheRange ==
    call.op = "filter_files_by_date_range" /\ call.returned => KeepsTheRange

\* list_files keeps every file dated within the range and none dated outside
ListFilesKeepsDatedInRange ==
    call.op = "list_files" /\ call.returned /\ RangeGiven =>
        LET dated(f) == f.file_date # NoDate
        IN SelectSeq(call.result, dated) = SelectSeq(Offered, WithinRange)

\* C19: with a date range given, filter_files_by_date_range and list_files
\* keep the files whose date lies within the range, both ends included, all
\* of them, and no file without a date
C19_OnlyFilesWithinRange ==
    call.op \in {"filter_files_by_date_range", "list_files"} /\ call.returned
        => KeepsTheRange

(***************************************************************************)
(* ConfigManager.load                                                      *)
(***************************************************************************)
REQUIRED_GLOBAL_PARAMS ==
    {"google_credentials_path", "telegram_bot_token", "telegram_chat_id",
     "gsheets_ble_journal_id", "gsheets_people_mapping_id"}

\* a variable the environment does not hold, and one it holds
Unset == [set |-> FALSE, value |-> <<>>]

EnvVar(text) == [set |-> TRUE, value |-> text]

\* the default get_param is called with for each required parameter
ParamDefault(param) ==
    IF param = "google_credentials_path"
    THEN <<"c", "r", "e", "d", "s">>
    ELSE <<>>

\* os.getenv(env_key) or global_config.get(json_key, default): a string is
\* false only when it is empty
get_param(env, global_config, param) ==
    IF env[param].set /\ env[param].value # <<>> THEN env[param].value
    ELSE IF param \in DOMAIN global_config THEN global_config[param]
    ELSE ParamDefault(param)

\* _validate_required: the parameters whose value is false
_validate_required(config) == {param \in REQUIRED_GLOBAL_PARAMS : config[param] = <<>>}

\* load, the facilities file and the optional parameters being in order
load(env, global_config) ==
    LET config == [param \in REQUIRED_GLOBAL_PARAMS |-> get_param(env, global_config, param)]
        missing == _validate_required(config)
    IN IF missing # {}
       THEN [status |-> "exit", code |-> 1]
       ELSE [status |-> "returned", config |-> config]

\* the values a variable of the environment takes: unset, empty, blanks, a
\* tab, a value
EnvValues ==
    {Unset, EnvVar(<<>>), EnvVar(<<" ", " ">>), EnvVar(<<"\t">>), EnvVar(<<"i", "d">>)}

\* the "global" section of facilities_config.json: absent, or giving some of
\* the parameters, one of them empty
GlobalConfigs ==
    {EmptyMap,
     ("telegram_chat_id" :> <<"7">>) @@ ("gsheets_ble_journal_id" :> <<>>)
         @@ ("google_credentials_path" :> <<" ">>)}

LoadCalls ==
    {[op |-> "load", arg |-> [env |-> env, global_config |-> g],
      returned |-> FALSE, result |-> [status |-> "none"]] :
        env \in [REQUIRED_GLOBAL_PARAMS -> EnvValues], g \in GlobalConfigs}

Load ==
    /\ call.op = "load"
    /\ ~call.returned
    /\ call' = [call EXCEPT !.returned = TRUE,
                            !.result = load(call.arg.env, call.arg.global_config)]
    /\ UNCHANGED <<pc, df, normalized, parsed, segments, zero_tags, gaps, timeline,
                   zone_statistics>>

\* load has returned or has ended the process
Loaded == call.op = "load" /\ call.returned

\* the text is empty or holds white space only
Blank(text) == \A i \in 1..Len(text) : text[i] \in {" ", "\t", "\n"}

\* neither the environment nor the file gives the parameter
Missing(param) ==
    ~call.arg.env[param].set /\ param \notin DOMAIN call.arg.global_config

\* the parameter is given, and blank wherever it is given
GivenBlank(param) ==
    /\ ~Missing(param)
    /\ call.arg.env[param].set => Blank(call.arg.env[param].value)
    /\ param \in DOMAIN call.arg.global_config => Blank(call.arg.global_config[param])

\* load ends the process with code 1 when a required parameter is empty
\* wherever it is given, the path of the credentials apart when the file
\* does not give it
ExitsOnEmpty ==
    Loaded /\ (\E param \in REQUIRED_GLOBAL_PARAMS :
                  /\ ~Missing(param)
                  /\ call.arg.env[param].value = <<>>
                  /\ param \in DOMAIN call.arg.global_config
                        => call.arg.global_config[param] = <<>>
                  /\ param = "google_credentials_path"
                        => param \in DOMAIN call.arg.global_config)
        => call.result = [status |-> "exit", code |-> 1]

\* C20: load ends the process with code 1 whenever a required parameter is
\* missing or is given blank, and the configuration it returns has a
\* non-blank value for every required parameter
C20_ExitsUnlessAllNonBlank ==
    Loaded =>
        /\ (\E param \in REQUIRED_GLOBAL_PARAMS : Missing(param) \/ GivenBlank(param))
              => call.result = [status |-> "exit", code |-> 1]
        /\ call.result.status = "returned"
              => \A param \in REQUIRED_GLOBAL_PARAMS : ~Blank(call.result.config[param])

(***************************************************************************)
(* A reading without a time of day                                         *)
(***************************************************************************)
\* the rows of the parsed table that belong to a group and have no time of day
TimelessRows ==
    {r \in 1..Len(parsed.rows) :
        /\ \E g \in 1..Len(Keys) : RowKey(parsed, parsed.rows[r]) = Keys[g]
        /\ Cell(parsed, parsed.rows[r], "time_only").k = "none"}

\* table t without its r-th row
WithoutRow(t, r) ==
    [t EXCEPT !.rows = SubSeq(t.rows, 1, r - 1) \o SubSeq(t.rows, r + 1, Len(t.rows))]

\* the loop states of build_segments over the group of key: before its first
\* row, then after each row
ScanStates(key) ==
    <<[prev_time |-> -1, day_offset |-> 0]>>
        \o ScanGroup(parsed, GroupRows(parsed, key), 1, Len(GroupRows(parsed, key)), key,
                     [prev_time |-> -1, day_offset |-> 0], AreaMap, FioMap).trace

\* the rows of the group of key that have no time of day, by place in the group
TimelessIn(key) ==
    {k \in 1..Len(GroupRows(parsed, key)) :
        Cell(parsed, GroupRows(parsed, key)[k], "time_only").k = "none"}

\* C21: a reading without a time of day gives no segment, leaves prev_time and
\* day_offset as they were, and the segments built are those built from the
\* table without that reading
C21_TimelessReadingOmitted ==
    pc \in PostBuild =>
        /\ Len(segments) = ReadingsTotal
        /\ \A g \in 1..Len(Keys) :
              LET states == ScanStates(Keys[g])
              IN \A k \in TimelessIn(Keys[g]) : states[k + 1] = states[k]
        /\ \A r \in TimelessRows :
              build_segments(WithoutRow(parsed, r), AreaMap, FioMap) = segments

\* C21 witness: the group 23:59, unreadable, 00:00, none, 00:01 has been built:
\* three segments, the last two on the next day
C21_Witness ==
    /\ pc = "built"
    /\ df = DirtyTable
    /\ Cardinality(TimelessRows) = 2
    /\ Len(segments) = 3
    /\ segments[2].start \div SecondsPerDay = segments[1].start \div SecondsPerDay + 1
    /\ segments[3].start \div SecondsPerDay = segments[2].start \div SecondsPerDay

(***************************************************************************)
(* The gap records of one badge                                            *)
(***************************************************************************)
\* the pairs of consecutive segments with more than a minute between the end
\* of the first and the start of the second
WidePairs(segs) == {k \in 1..(Len(segs) - 1) : Hole(segs, k) > 60}

\* the n-th of them, in order
NthWidePair(segs, n) ==
    CHOOSE k \in WidePairs(segs) : Cardinality({j \in WidePairs(segs) : j < k}) = n - 1

\* C22: over one badge's segments sorted by start, the gap records are, in
\* order, one for each consecutive pair with next.start - previous.end strictly
\* above one minute and none for any other pair; a record runs from
\* previous.end to next.start and its gap_minutes is that difference in
\* minutes; a badge without such a pair has no entry
C22_GapIffAboveOneMinute ==
    pc = "done" =>
        /\ \A tn \in SegmentTns :
              LET segs == SortByStart(SegmentsOf(segments, tn))
                  recs == GapsFor(tn)
              IN /\ Len(recs) = Cardinality(WidePairs(segs))
                 /\ \A n \in 1..Len(recs) :
                       LET k == NthWidePair(segs, n)
                       IN /\ recs[n].from = segs[k].end
                          /\ recs[n].to = segs[k + 1].start
                          /\ recs[n].gap_minutes.num * 60
                                = (segs[k + 1].start - segs[k].end) * recs[n].gap_minutes.den
                 /\ tn \in DOMAIN gaps <=> WidePairs(segs) # {}
        /\ DOMAIN gaps \subseteq SegmentTns

\* C22 witness: a badge with one missing minute between two segments and more
\* than a minute between two others has the one gap record, of a length that
\* is no whole number of minutes
C22_Witness ==
    /\ pc = "done"
    /\ \E tn \in SegmentTns :
          LET segs == SortByStart(SegmentsOf(segments, tn))
          IN /\ \E k \in 1..(Len(segs) - 1) : Hole(segs, k) = 60
             /\ Cardinality(WidePairs(segs)) = 1
             /\ Len(GapsFor(tn)) = 1
             /\ GapsFor(tn)[1].gap_minutes.num % 60 # 0

(***************************************************************************)
(* The percentages of the report: _generate_zones_accordion and pct        *)
(***************************************************************************)
\* variant: a tie goes up
RoundHalfEven_half_up(num, den) ==
    IF 2 * (num % den) >= den THEN num \div den + 1 ELSE num \div den

\* round(): the whole number nearest to num/den, the even one of the two when
\* num/den lies half-way (the quotients here are exact in binary when they do)
RoundHalfEven(num, den) ==
    LET q == num \div den
        r == num % den
    IN IF 2 * r < den THEN q
       ELSE IF 2 * r > den THEN q + 1
       ELSE IF q % 2 = 0 THEN q ELSE q + 1

\* round(mins / total * 100, 1) if total > 0 else 0, in tenths of a percent
zpct(mins, total) == IF total > 0 THEN RoundHalfEven(mins * 1000, total) ELSE 0

\* round(v / total * 100) if total > 0 else 0, in percent
pct(v, total) == IF total > 0 THEN RoundHalfEven(v * 100, total) ELSE 0

\* the largest total of minutes tried
MaxTotal == 16

\* an entry's minutes and the total they are part of
Shares == {sh \in [v : 0..MaxTotal, total : 0..MaxTotal] : sh.v <= sh.total}

AccordionPercentCalls ==
    {[op |-> kind, arg |-> sh, returned |-> FALSE, result |-> 0] :
        kind \in {"zpct", "tpct"}, sh \in Shares}

KpiPercentCalls ==
    {[op |-> "pct", arg |-> sh, returned |-> FALSE, result |-> 0] : sh \in Shares}

\* the percentage of a zone or of a tag in the accordion
AccordionPercent ==
    /\ call.op \in {"zpct", "tpct"}
    /\ ~call.returned
    /\ call' = [call EXCEPT !.returned = TRUE, !.result = zpct(call.arg.v, call.arg.total)]
    /\ UNCHANGED <<pc, df, normalized, parsed, segments, zero_tags, gaps, timeline,
                   zone_statistics>>

\* the percentage on a KPI card
KpiPercent ==
    /\ call.op = "pct"
    /\ ~call.returned
    /\ call' = [call EXCEPT !.returned = TRUE, !.result = pct(call.arg.v, call.arg.total)]
    /\ UNCHANGED <<pc, df, normalized, parsed, segments, zero_tags, gaps, timeline,
                   zone_statistics>>

\* a percentage has been computed
Percented == call.op \in {"zpct", "tpct", "pct"} /\ call.returned

\* |a|
Abs(a) == IF a < 0 THEN 0 - a ELSE a

\* result, counted in units of 1/scale percent, is the multiple of that unit
\* nearest to v / total * 100
NearestTo(result, scale) ==
    2 * Abs(result * call.arg.total - call.arg.v * 100 * scale) <= call.arg.total

\* when v / total * 100 lies half-way between two multiples, the even one
EvenOnTie(result, scale) ==
    2 * Abs(result * call.arg.total - call.arg.v * 100 * scale) = call.arg.total
        => result % 2 = 0

MaxSendRetries == 3

\* what one attempt comes to: the message is sent, a TelegramError of flood
\* control, another TelegramError, another exception
SendOutcomes == {"sent", "flood_control", "telegram_error", "exception"}

SendOps == {"_send_message_sync", "send_document"}

\* attempts holds the outcome of every attempt made so far
SendCalls ==
    {[op |-> o, arg |-> [retries |-> n, enabled |-> e], returned |-> FALSE,
      result |-> FALSE, at |-> "entry", attempts |-> <<>>] :
        o \in SendOps, n \in 0..MaxSendRetries, e \in BOOLEAN}

\* variant: only flood control is followed by another attempt
GoesOn_flood_only(outcome) == outcome = "flood_control"

\* the outcomes after which the loop goes on to the next attempt, if one is
\* left: "continue" after the sleep
GoesOn(outcome) == outcome \in {"flood_control", "exception"}

\* if not self._enabled or not self.bot: return False
SendEnter ==
    /\ call.op \in SendOps
    /\ ~call.returned
    /\ call.at = "entry"
    /\ call' = IF call.arg.enabled
               THEN [call EXCEPT !.at = "loop"]
               ELSE [call EXCEPT !.returned = TRUE, !.result = FALSE]
    /\ UNCHANGED <<pc, df, normalized, parsed, segments, zero_tags, gaps, timeline,
                   zone_statistics>>

\* one pass of "for attempt in range(retries)"
SendAttempt ==
    /\ call.op \in SendOps
    /\ ~call.returned
    /\ call.at = "loop"
    /\ Len(call.attempts) < call.arg.retries
    /\ \E outcome \in SendOutcomes :
          LET attempt == Len(call.attempts)
              made == Append(call.attempts, outcome)
          IN call' =
               IF outcome = "sent"
               THEN [call EXCEPT !.attempts = made, !.returned = TRUE, !.result = TRUE]
               ELSE IF outcome = "exception" /\ ~(attempt < call.arg.retries - 1)
               THEN [call EXCEPT !.attempts = made, !.returned = TRUE, !.result = FALSE]
               ELSE IF GoesOn(outcome)
               THEN [call EXCEPT !.attempts = made]
               ELSE [call EXCEPT !.attempts = made, !.returned = TRUE, !.result = FALSE]
    /\ UNCHANGED <<pc, df, normalized, parsed, segments, zero_tags, gaps, timeline,
                   zone_statistics>>

\* the loop has run out: return False
SendExhausted ==
    /\ call.op \in SendOps
    /\ ~call.returned
    /\ call.at = "loop"
    /\ Len(call.attempts) = call.arg.retries
    /\ call' = [call EXCEPT !.returned = TRUE, !.result = FALSE]
    /\ UNCHANGED <<pc, df, normalized, parsed, segments, zero_tags, gaps, timeline,
                   zone_statistics>>

\* the last attempt made
LastAttempt == call.attempts[Len(call.attempts)]

\* C24: a send makes at most retries attempts; it makes none after one that
\* sent the message or failed with a TelegramError other than flood control;
\* it returns True exactly when its last attempt sent the message; and when
\* its last attempt failed with flood control or another exception, it
\* returns (False) only with all its attempts made
C24_SendWithRetry ==
    call.op \in SendOps =>
        /\ Len(call.attempts) <= call.arg.retries
        /\ \A i \in 1..(Len(call.attempts) - 1) :
              call.attempts[i] \in {"flood_control", "exception"}
        /\ call.returned =>
              /\ call.result <=> (call.attempts # <<>> /\ LastAttempt = "sent")
              /\ (call.attempts # <<>> /\ LastAttempt \in {"flood_control", "exception"})
                    => Len(call.attempts) = call.arg.retries
              /\ call.attempts = <<>> => ~call.arg.enabled \/ call.arg.retries = 0
        /\ (~call.returned /\ call.attempts # <<>>)
              => LastAttempt \in {"flood_control", "exception"}

\* C24 witness: the third of three attempts sends the message, after a flood
\* control and an unexpected exception
C24_Witness ==
    /\ call.op = "send_document"
    /\ call.returned
    /\ call.result
    /\ call.arg.retries = 3
    /\ call.attempts = <<"flood_control", "exception", "sent">>

(***************************************************************************)
(* download_file, upload_file, read_sheet: the retry loops                 *)
(***************************************************************************)
MAX_RETRIES == 3

\* what one request comes to: a result, or an HttpError of the given status
\* (500 stands for any status other than 404 and 429)
ApiOutcomes == {"ok", "404", "429", "500"}

ApiOps == {"download_file", "upload_file", "read_sheet"}

\* attempts holds the outcome of every request made so far; the result is the
\* API's value, the HttpError raised, or the value of the return after the loop
ApiCalls ==
    {[op |-> o, arg |-> <<>>, returned |-> FALSE, result |-> "none", attempts |-> <<>>] :
        o \in ApiOps}

\* only download_file re-raises a 404 at once
RaisesAtOnce(op, outcome) == op = "download_file" /\ outcome = "404"

\* one pass of "for attempt in range(1, self.MAX_RETRIES + 1)"
ApiAttempt ==
    /\ call.op \in ApiOps
    /\ ~call.returned
    /\ Len(call.attempts) < MAX_RETRIES
    /\ \E outcome \in ApiOutcomes :
          LET attempt == Len(call.attempts) + 1
              made == Append(call.attempts, outcome)
          IN call' =
               IF outcome = "ok"
               THEN [call EXCEPT !.attempts = made, !.returned = TRUE, !.result = "value"]
               ELSE IF RaisesAtOnce(call.op, outcome)
               THEN [call EXCEPT !.attempts = made, !.returned = TRUE, !.result = "raised"]
               ELSE IF outcome = "429"
               THEN [call EXCEPT !.attempts = made]
               ELSE IF attempt < MAX_RETRIES
               THEN [call EXCEPT !.attempts = made]
               ELSE [call EXCEPT !.attempts = made, !.returned = TRUE, !.result = "raised"]
    /\ UNCHANGED <<pc, df, normalized, parsed, segments, zero_tags, gaps, timeline,
                   zone_statistics>>

\* the return after the loop: b'', '' or []
ApiFallthrough ==
    /\ call.op \in ApiOps
    /\ ~call.returned
    /\ Len(call.attempts) = MAX_RETRIES
    /\ call' = [call EXCEPT !.returned = TRUE, !.result = "placeholder"]
    /\ UNCHANGED <<pc, df, normalized, parsed, segments, zero_tags, gaps, timeline,
                   zone_statistics>>

\* a call that ends after an HttpError other than 429 on its last request
\* raises it
RaisesAfterOtherError ==
    (call.op \in ApiOps /\ call.returned /\ call.attempts[Len(call.attempts)] \in {"404", "500"})
        => call.result = "raised"

\* C25: download_file, upload_file and read_sheet end by returning the API's
\* result or by raising the HttpError, never by the return after the loop
C25_FallthroughUnreachable ==
    (call.op \in ApiOps /\ call.returned) => call.result \in {"value", "raised"}

(***************************************************************************)
(* AABLEReportOrchestrator.run                                             *)
(***************************************************************************)
\* the number of facilities in the configuration, and of report dates of one
\* facility
MaxFacilities == 2

MaxReports == 1

FacilityConfigs ==
    {[name |-> "A", enabled |-> TRUE], [name |-> "B", enabled |-> TRUE],
     [name |-> "C", enabled |-> FALSE]}

\* the facilities argument of run: None, or a list of names
NoSelection == {"*"}

Selections == {NoSelection, {"B"}, {"A", "C"}}

\* _get_facilities_to_process: the enabled facilities, those named when names
\* are given, in the order of the configuration
_get_facilities_to_process(facilities, selected) ==
    LET chosen(f) == f.enabled /\ (selected = NoSelection \/ f.name \in selected)
    IN SelectSeq(facilities, chosen)

\* what _generate_and_upload_report meets for one report date: no HTML,
\* an exception while generating, the document sent, the document refused and
\* the file saved, the document refused and the file not writable
ReportOutcomes == {"no_html", "generate_raises", "sent", "saved", "save_raises"}

\* variant: only a report that was sent counts
_generate_and_upload_report_sent_only(outcome) == outcome = "sent"

\* _generate_and_upload_report: True after the send or the local save, False
\* without HTML or from the except branch
_generate_and_upload_report(outcome) == outcome \in {"sent", "saved"}

\* what _process_facility meets: no data loaded, an exception in the loader or
\* the processor, no segments, or segments with their report dates
FacilityOutcomes ==
    {[kind |-> k, reports |-> <<>>] : k \in {"no_data", "raises", "no_segments"}}
        \cup {[kind |-> "segments", reports |-> rs] :
                 rs \in UNION {[1..n -> ReportOutcomes] : n \in 0..MaxReports}}

\* reports_created of _process_facility
ReportsCreated(outcome) ==
    IF outcome.kind # "segments" THEN 0
    ELSE Cardinality({d \in 1..Len(outcome.reports) :
                         _generate_and_upload_report(outcome.reports[d])})

\* _process_facility: True when at least one report was created
_process_facility(outcome) == ReportsCreated(outcome) > 0

\* done holds, for every facility processed, its name and what it met
RunCalls ==
    {[op |-> "run", arg |-> [facilities |-> fs, selected |-> sel], returned |-> FALSE,
      result |-> FALSE, at |-> "entry", todo |-> <<>>, done |-> <<>>, success_count |-> 0] :
        fs \in UNION {[1..n -> FacilityConfigs] : n \in 0..MaxFacilities},
        sel \in Selections}

\* the dates, the authentication, the reference data, the list of facilities
RunSetup ==
    /\ call.op = "run"
    /\ ~call.returned
    /\ call.at = "entry"
    /\ \E setup_ok \in BOOLEAN :
          LET facilities_to_process ==
                  _get_facilities_to_process(call.arg.facilities, call.arg.selected)
          IN call' =
               IF ~setup_ok
               THEN [call EXCEPT !.at = "failed", !.returned = TRUE, !.result = FALSE]
               ELSE IF facilities_to_process = <<>>
               THEN [call EXCEPT !.at = "loop", !.returned = TRUE, !.result = FALSE]
               ELSE [call EXCEPT !.at = "loop", !.todo = facilities_to_process]
    /\ UNCHANGED <<pc, df, normalized, parsed, segments, zero_tags, gaps, timeline,
                   zone_statistics>>

\* one pass of "for facility in facilities_to_process"
RunFacility ==
    /\ call.op = "run"
    /\ ~call.returned
    /\ call.at = "loop"
    /\ call.todo # <<>>
    /\ \E outcome \in FacilityOutcomes :
          call' = [call EXCEPT
                     !.todo = Tail(call.todo),
                     !.done = Append(call.done,
                                     [name |-> Head(call.todo).name, met |-> outcome]),
                     !.success_count = IF _process_facility(outcome)
                                       THEN call.success_count + 1
                                       ELSE call.success_count]
    /\ UNCHANGED <<pc, df, normalized, parsed, segments, zero_tags, gaps, timeline,
                   zone_statistics>>

\* return success_count > 0
RunReturn ==
    /\ call.op = "run"
    /\ ~call.returned
    /\ call.at = "loop"
    /\ call.todo = <<>>
    /\ call' = [call EXCEPT !.returned = TRUE, !.result = (call.success_count > 0)]
    /\ UNCHANGED <<pc, df, normalized, parsed, segments, zero_tags, gaps, timeline,
                   zone_statistics>>

\* the names of the facilities run is to process: enabled, selected, in the
\* order of the configuration
Selected ==
    LET fs == call.arg.facilities
        picked == {i \in 1..Len(fs) :
                      /\ fs[i].enabled
                      /\ call.arg.selected = NoSelection \/ fs[i].name \in call.arg.selected}
        Nth(n) == CHOOSE i \in picked : Cardinality({j \in picked : j < i}) = n - 1
    IN [n \in 1..Cardinality(picked) |-> fs[Nth(n)].name]

\* the facility produced a report: for one of its dates the HTML was
\* generated and then sent or saved
ProducedReport(met) ==
    /\ met.kind = "segments"
    /\ \E d \in 1..Len(met.reports) : met.reports[d] \in {"sent", "saved"}

\* C26: once its preparations are made, run processes the selected enabled
\* facilities in order, whatever the earlier ones met, and returns True
\* exactly when one of them produced a report, sent or saved
C26_AllFacilitiesThenAnyReport ==
    (call.op = "run" /\ call.at = "loop") =>
        /\ Len(call.done) <= Len(Selected)
        /\ \A i \in 1..Len(call.done) : call.done[i].name = Selected[i]
        /\ call.returned =>
              /\ Len(call.done) = Len(Selected)
              /\ call.result <=> \E i \in 1..Len(call.done) : ProducedReport(call.done[i].met)

\* C26 witness: the first facility raised, the second one saved its only
\* report locally, and run returned True
C26_Witness ==
    /\ call.op = "run"
    /\ call.returned
    /\ call.result
    /\ Len(call.done) = 2
    /\ call.done[1].met.kind = "raises"
    /\ call.done[2].met = [kind |-> "segments", reports |-> <<"saved">>]

(***************************************************************************)
(* The scan of one group: day_offset and the starts                        *)
(***************************************************************************)
\* C27: while build_segments scans a group, day_offset never decreases from
\* one row to the next, and the segments of the group start in non-decreasing
\* order, whatever the order of the times of day
C27_OffsetAndStartsMonotone ==
    (pc \in PostBuild /\ Len(segments) = ReadingsTotal) =>
        \A g \in 1..Len(Keys) :
            LET states == ScanStates(Keys[g])
                segs == EmittedFor(g)
            IN /\ \A k \in 1..(Len(states) - 1) :
                     states[k].day_offset <= states[k + 1].day_offset
               /\ \A i \in 1..(Len(segs) - 1) : segs[i].start <= segs[i + 1].start

\* C27 witness: a group whose times of day go backwards twice ends its scan
\* at day_offset 2, its three segments on three successive days
C27_Witness ==
    /\ pc = "built"
    /\ Len(Keys) = 1
    /\ Len(Times(Keys[1])) = 3
    /\ Times(Keys[1])[1] > Times(Keys[1])[2]
    /\ Times(Keys[1])[2] > Times(Keys[1])[3]
    /\ ScanStates(Keys[1])[4].day_offset = 2
    /\ segments[3].start \div SecondsPerDay = segments[1].start \div SecondsPerDay + 2

(***************************************************************************)
(* The bounds of the viewport                                              *)
(***************************************************************************)
\* C28: the viewport of a timeline starts and ends on a full hour; it starts
\* at or after 0, at most 59 minutes before the first minute, and ends after
\* the last minute, at most 60 minutes after it; every segment's minute lies
\* within it
C28_ViewportBounds ==
    timeline.data.status = "ok" =>
        LET data == timeline.data
        IN /\ Len(data.segments) > 0
           /\ data.viewport_start % 60 = 0
           /\ data.viewport_end % 60 = 0
           /\ 0 <= data.viewport_start
           /\ data.viewport_start <= data.first_minute
           /\ data.first_minute <= data.last_minute
           /\ data.last_minute < data.viewport_end
           /\ data.first_minute - data.viewport_start < 60
           /\ data.viewport_end - data.last_minute <= 60
           /\ \A i \in 1..Len(data.segments) :
                 /\ data.viewport_start <= data.segments[i].minute
                 /\ data.segments[i].minute < data.viewport_end

\* C28 witness: a timeline from 23:59 to 00:00 of the next day, its last
\* minute 1440 on the hour, shown from 1380 to 1500
C28_Witness ==
    /\ timeline.data.status = "ok"
    /\ timeline.data.first_minute = 1439
    /\ timeline.data.last_minute = 1440
    /\ timeline.data.viewport_start = 1380
    /\ timeline.data.viewport_end = 1500

(***************************************************************************)
(* The sections of the combined report                                     *)
(***************************************************************************)
\* the badges whose segments went into the section
SectionBadges == {timeline.df_user[i].tn_number : i \in 1..Len(timeline.df_user)}

\* C29: the segments a section of the combined report is computed from all
\* belong to one badge, also when two badges have the same display name
C29_OneIdentityPerSection ==
    pc = "timeline" => Cardinality(SectionBadges) <= 1

\* a section holds all the segments of its display name and report date,
\* whatever their badges
SectionIsPerName ==
    pc = "timeline" =>
        \A i \in 1..Len(segments) :
            (segments[i].employee = timeline.employee /\ segments[i].date = timeline.report_date)
                => \E j \in 1..Len(timeline.df_user) : timeline.df_user[j] = segments[i]

(***************************************************************************)
(* GoogleDriveClient.list_files: the requests for the pages                *)
(***************************************************************************)
\* the pages of a listing, and the requests followed in one call
MaxPages == 2

MaxRequests == 6

\* page is the page asked for next, requests the number of requests made,
\* refused the number of 429 answers to the page being asked for
ListRequestCalls ==
    {[op |-> "list_files.pages", arg |-> [pages |-> n], returned |-> FALSE,
      result |-> "none", page |-> 1, requests |-> 0, refused |-> 0] : n \in 1..MaxPages}

\* one pass of "while True": the request for a page is answered with the page,
\* with HTTP 429 or with another HttpError
ListFilesRequest ==
    /\ call.op = "list_files.pages"
    /\ ~call.returned
    /\ call.requests < MaxRequests
    /\ \E answer \in {"page", "429", "500"} :
          call' =
            IF answer = "page"
            THEN IF call.page < call.arg.pages
                 \* nextPageToken: the loop asks for the next page
                 THEN [call EXCEPT !.requests = call.requests + 1,
                                   !.page = call.page + 1, !.refused = 0]
                 ELSE [call EXCEPT !.requests = call.requests + 1,
                                   !.returned = TRUE, !.result = "files"]
            ELSE IF answer = "429"
            \* _handle_rate_limit, then continue: nothing counts the attempts
            THEN [call EXCEPT !.requests = call.requests + 1,
                              !.refused = call.refused + 1]
            ELSE [call EXCEPT !.requests = call.requests + 1,
                              !.returned = TRUE, !.result = "raised"]
    /\ UNCHANGED <<pc, df, normalized, parsed, segments, zero_tags, gaps, timeline,
                   zone_statistics>>

\* an HttpError other than 429 is raised at once, and the listing is returned
\* once its last page has come
ListEndsOnPageOrError ==
    (call.op = "list_files.pages" /\ call.returned) =>
        /\ call.result \in {"files", "raised"}
        /\ call.result = "files" => call.page = call.arg.pages

\* C30: list_files asks again for a page answered with HTTP 429 at most
\* MAX_RETRIES times: it has raised the error, or got the page, before a page
\* is refused once more
C30_RateLimitRetriesBounded ==
    call.op = "list_files.pages" => call.refused <= MAX_RETRIES + 1

(***************************************************************************)
(* The helper functions, called one at a time: a behaviour is one call of  *)
(* one function on one input                                               *)
(***************************************************************************)
Idle ==
    /\ pc = "idle"
    /\ df = NoTable
    /\ normalized = NoTable
    /\ parsed = NoTable
    /\ segments = <<>>
    /\ zero_tags = EmptyMap
    /\ gaps = EmptyMap
    /\ timeline = [report_date |-> 0, employee |-> <<>>, df_user |-> <<>>, data |-> NoTimeline,
                   zones |-> <<>>]
    /\ zone_statistics = [tn |-> <<>>, df_user |-> <<>>, stats |-> <<>>]

InitCalls ==
    /\ Idle
    /\ call \in Round051Calls \cup ParseTimeCalls \cup InferFileDateCalls
                \cup SplitMessageCalls \cup ListFilesCalls \cup FilterFilesCalls
                \cup LoadCalls
                \cup AccordionPercentCalls \cup KpiPercentCalls
                \cup SendCalls
                \cup ApiCalls
                \cup RunCalls
                \cup ListRequestCalls

NextCalls ==
    \/ Round051
    \/ ParseTime
    \/ InferFileDate
    \/ SplitMessage
    \/ ListFiles
    \/ FilterFilesByDateRange
    \/ Load
    \/ AccordionPercent
    \/ KpiPercent
    \/ SendEnter
    \/ SendAttempt
    \/ SendExhausted
    \/ ApiAttempt
    \/ ApiFallthrough
    \/ RunSetup
    \/ RunFacility
    \/ RunReturn
    \/ ListFilesRequest

SpecCalls == InitCalls /\ [][NextCalls]_vars

====
